---- MODULE Spec2Model ----
(***************************************************************************)
(* Verification model of cli-hub (src-tauri): MCP server import/export     *)
(* between the unified store and the three clients' live files, the        *)
(* durable store's schema migration, and the SQL backup/restore path.      *)
(***************************************************************************)
EXTENDS Integers, Sequences, FiniteSets, TLC

VARIABLES
    config,     \* MultiAppConfig.mcp: unified servers + the three per-client McpConfig maps
    live,       \* the three clients' live configuration files
    last,       \* record of the operation that ran last (inputs, outcome)
    prevOp,     \* record of the operation that ran before the last one
    steps,      \* number of operations run so far
    db,         \* the durable store opened by Database::init
    mig,        \* position of Database::init / apply_schema_migrations_on_conn
    fs,         \* backup directory, clock and SQL file offered to import_sql
    imp,        \* position and locals of import_sql
    wr,         \* a file being written: target, temp file, position of the writer
    drv,        \* position of the sync-all driver
    conv,       \* input and output of the JSON -> TOML value converter
    call,       \* a call of a pure function: its name, argument and result
    thr         \* threads on the store handle: the connection lock, each thread's
                \* operation and position, the store, snapshots and dumps

vars == <<config, live, last, prevOp, steps, db, mig, fs, imp, wr, drv, conv, call, thr>>

mcpVars == <<config, live, last, prevOp, steps>>
dbVars == <<db, mig>>
bkVars == <<fs, imp>>
auxVars == <<wr, drv, conv, call, thr>>

(***************************************************************************)
(* Bounds of the model                                                     *)
(***************************************************************************)
MaxSteps == 2       \* MCP operations run in one behaviour
MaxOpens == 2       \* Database::init / migration runs in one behaviour
MaxSec == 11        \* last clock second at which a backup is taken
MaxRows == 1        \* rows save_mcp_server adds to mcp_servers
MaxImports == 1     \* import_sql calls in one behaviour

(***************************************************************************)
(* JSON / TOML values of a server entry                                    *)
(***************************************************************************)
Absent == "<absent>"     \* key not present in the object / table
NonStr == "<nonstr>"     \* key present, value not a string (as_str() is None)

Clients == {"claude", "codex", "gemini"}
IdOrder == <<"a", "b", "c">>     \* ids in ascending key order
Ids == {IdOrder[i] : i \in 1..Len(IdOrder)}

Fields == {"type", "command", "url", "httpUrl"}

\* str::trim().is_empty()
IsBlank(s) == s \in {"", " "}

\* Value::as_str as an Option: Absent stands for None
AsStr(v) == IF v \in {Absent, NonStr} THEN Absent ELSE v

\* a JSON object / TOML table with the fields a server entry can carry
Obj(t, c, u, h) == [isObj |-> TRUE, type |-> t, command |-> c, url |-> u, httpUrl |-> h]
\* an entry that is not an object (e.g. a string or a number)
NotObj == [isObj |-> FALSE, type |-> Absent, command |-> Absent, url |-> Absent, httpUrl |-> Absent]

EmptyMap == [x \in {} |-> NotObj]

MapInsert(m, k, v) == [x \in (DOMAIN m) \cup {k} |-> IF x = k THEN v ELSE m[x]]
MapRemove(m, k) == [x \in (DOMAIN m) \ {k} |-> m[x]]

(***************************************************************************)
(* mcp/validation.rs                                                       *)
(***************************************************************************)
validate_server_spec(spec) ==
    /\ spec.isObj
    /\ LET t_opt == AsStr(spec.type)
           is_stdio == IF t_opt = Absent THEN TRUE ELSE t_opt = "stdio"
           is_http == IF t_opt = Absent THEN FALSE ELSE t_opt = "http"
           is_sse == IF t_opt = Absent THEN FALSE ELSE t_opt = "sse"
       IN  /\ is_stdio \/ is_http \/ is_sse
           /\ is_stdio => ~IsBlank(IF AsStr(spec.command) = Absent THEN "" ELSE spec.command)
           /\ is_http => ~IsBlank(IF AsStr(spec.url) = Absent THEN "" ELSE spec.url)
           /\ is_sse => ~IsBlank(IF AsStr(spec.url) = Absent THEN "" ELSE spec.url)

(***************************************************************************)
(* app_config.rs: McpApps, McpServer                                       *)
(***************************************************************************)
McpApps(cl, cx, ge) == [claude |-> cl, codex |-> cx, gemini |-> ge]

McpServer(id, name, server, apps, description, homepage, docs, tags) ==
    [id |-> id, name |-> name, server |-> server, apps |-> apps,
     description |-> description, homepage |-> homepage, docs |-> docs,
     tags |-> tags]

\* the server an importer inserts for an id it has not seen
NewServer(id, spec, c) ==
    [id |-> id, name |-> id, server |-> spec,
     apps |-> McpApps(c = "claude", c = "codex", c = "gemini"),
     description |-> Absent, homepage |-> Absent, docs |-> Absent, tags |-> <<>>]

\* McpConfig entry of the per-client (v3.6) storage: loosely typed JSON object
LegacyEntry(enabled, hasServer, server) ==
    [enabled |-> enabled, hasServer |-> hasServer, server |-> server]

(***************************************************************************)
(* Live files.  A JSON live file (Claude, Gemini) and the Codex TOML file  *)
(* share one record shape; legacy/legacyServers is the misplaced           *)
(* [mcp.servers] table and only occurs in the TOML file.                   *)
(***************************************************************************)
LiveFile(state, mcp, servers, legacy, legacyServers, other) ==
    [state |-> state, mcp |-> mcp, servers |-> servers,
     legacy |-> legacy, legacyServers |-> legacyServers, other |-> other]

AbsentFile == LiveFile("absent", "absent", EmptyMap, "absent", EmptyMap, "")
InvalidFile == LiveFile("invalid", "absent", EmptyMap, "absent", EmptyMap, "")

\* read_mcp_json: None when the file is missing
read_mcp_json(file) == file.state # "absent"

\* codex_config::read_and_validate_codex_config_text: "" when the file is
\* missing, an error when the text is not valid TOML
read_codex_text_ok(file) == file.state # "invalid"

\* text.trim().is_empty()
codex_text_is_empty(file) ==
    \/ file.state = "absent"
    \/ /\ file.state = "ok"
       /\ file.mcp = "absent"
       /\ file.legacy = "absent"
       /\ file.other = ""

(***************************************************************************)
(* mcp/sync/claude.rs, mcp/sync/gemini.rs: import_from_claude/_gemini      *)
(***************************************************************************)
\* variant of the loop body that also takes the live file's spec for an
\* existing server
ImportEntryOverwrite(acc, id, spec, c) ==
    IF ~validate_server_spec(spec)
    THEN acc
    ELSE IF id \in DOMAIN acc.servers
         THEN IF ~acc.servers[id].apps[c]
              THEN [acc EXCEPT !.servers[id].apps[c] = TRUE,
                               !.servers[id].server = spec,
                               !.changed = @ + 1]
              ELSE acc
         ELSE [acc EXCEPT !.servers = MapInsert(@, id, NewServer(id, spec, c)),
                          !.changed = @ + 1]

\* variant of the loop body that counts an existing server as changed even
\* when its flag was already set
ImportEntryAlwaysCounts(acc, id, spec, c) ==
    IF ~validate_server_spec(spec)
    THEN acc
    ELSE IF id \in DOMAIN acc.servers
         THEN [acc EXCEPT !.servers[id].apps[c] = TRUE, !.changed = @ + 1]
         ELSE [acc EXCEPT !.servers = MapInsert(@, id, NewServer(id, spec, c)),
                          !.changed = @ + 1]

\* body of the for loop: validate, then enable the client on an existing
\* server or insert a new one
ImportEntry(acc, id, spec, c) ==
    IF ~validate_server_spec(spec)
    THEN acc
    ELSE IF id \in DOMAIN acc.servers
         THEN IF ~acc.servers[id].apps[c]
              THEN [acc EXCEPT !.servers[id].apps[c] = TRUE, !.changed = @ + 1]
              ELSE acc
         ELSE [acc EXCEPT !.servers = MapInsert(@, id, NewServer(id, spec, c)),
                          !.changed = @ + 1]

RECURSIVE ImportJsonLoop(_, _, _, _)
ImportJsonLoop(acc, i, map, c) ==
    IF i > Len(IdOrder)
    THEN acc
    ELSE LET id == IdOrder[i]
         IN  IF id \in DOMAIN map
             THEN ImportJsonLoop(ImportEntry(acc, id, map[id], c), i + 1, map, c)
             ELSE ImportJsonLoop(acc, i + 1, map, c)

\* result of an importer: ok, changed count, and the config it leaves
ImportResult(ok, changed, cfg) == [ok |-> ok, changed |-> changed, cfg |-> cfg]

\* variant that takes unparsable text for an empty document
parse_json_lenient(file) == TRUE

\* serde_json::from_str(&text) succeeds
parse_json_ok(file) == file.state # "invalid"

import_from_json(cfg, file, c) ==
    IF ~read_mcp_json(file)
    THEN ImportResult(TRUE, 0, cfg)
    ELSE IF ~parse_json_ok(file)
    THEN ImportResult(FALSE, 0, cfg)
    ELSE IF file.state # "ok" \/ file.mcp # "obj"
    THEN ImportResult(TRUE, 0, cfg)
    ELSE LET acc == ImportJsonLoop([servers |-> cfg.servers, changed |-> 0, stop |-> FALSE],
                                   1, file.servers, c)
         IN  ImportResult(TRUE, acc.changed,
                          [cfg EXCEPT !.some = TRUE, !.servers = acc.servers])

(***************************************************************************)
(* mcp/sync/codex.rs: import_from_codex                                    *)
(***************************************************************************)
\* type defaults to stdio
codex_typ(entry) == IF AsStr(entry.type) = Absent THEN "stdio" ELSE entry.type

\* the JSON spec built from one TOML entry: core fields are read as strings,
\* every other key goes through the generic TOML -> JSON conversion
codex_entry_to_spec(entry) ==
    LET typ == codex_typ(entry)
    IN  IF typ = "stdio"
        THEN Obj(typ, AsStr(entry.command), entry.url, entry.httpUrl)
        ELSE Obj(typ, entry.command, AsStr(entry.url), entry.httpUrl)

\* the closure import_servers_tbl: a non-table entry is passed over, an
\* entry of unknown type leaves the closure with the count so far
RECURSIVE import_servers_tbl(_, _, _)
import_servers_tbl(acc, i, tbl) ==
    IF i > Len(IdOrder)
    THEN acc
    ELSE LET id == IdOrder[i]
         IN  IF id \notin DOMAIN tbl
             THEN import_servers_tbl(acc, i + 1, tbl)
             ELSE IF ~tbl[id].isObj
             THEN import_servers_tbl(acc, i + 1, tbl)
             ELSE IF codex_typ(tbl[id]) \notin {"stdio", "http", "sse"}
             THEN acc
             ELSE import_servers_tbl(
                      ImportEntry(acc, id, codex_entry_to_spec(tbl[id]), "codex"),
                      i + 1, tbl)

import_from_codex(cfg, file) ==
    IF ~read_codex_text_ok(file)
    THEN ImportResult(FALSE, 0, cfg)
    ELSE IF codex_text_is_empty(file)
    THEN ImportResult(TRUE, 0, cfg)
    ELSE LET acc0 == [servers |-> cfg.servers, changed |-> 0, stop |-> FALSE]
             \* 1) mcp.servers
             acc1 == IF file.legacy = "obj"
                     THEN import_servers_tbl(acc0, 1, file.legacyServers)
                     ELSE acc0
             \* 2) mcp_servers
             acc2 == IF file.mcp = "obj"
                     THEN import_servers_tbl(acc1, 1, file.servers)
                     ELSE acc1
         IN  ImportResult(TRUE, acc2.changed,
                          [cfg EXCEPT !.some = TRUE, !.servers = acc2.servers])

(***************************************************************************)
(* mcp/helpers.rs: extract_server_spec, collect_enabled_servers            *)
(***************************************************************************)
\* Ok(server) when the entry has a server field that is an object
extract_server_spec_ok(entry) == entry.hasServer /\ entry.server.isObj

\* the per-client McpConfig filtered by enabled == true
collect_enabled_servers(mcpCfg) ==
    LET keep == {id \in DOMAIN mcpCfg :
                    /\ mcpCfg[id].enabled = "true"
                    /\ extract_server_spec_ok(mcpCfg[id])}
    IN  [id \in keep |-> mcpCfg[id].server]

(***************************************************************************)
(* gemini_mcp.rs / claude_mcp.rs: set_mcp_servers_map                      *)
(***************************************************************************)
\* Gemini: HTTP uses "httpUrl", SSE keeps "url"; "type" is removed
gemini_entry(spec) ==
    LET renamed == IF AsStr(spec.type) = "http" /\ spec.url # Absent
                   THEN [spec EXCEPT !.httpUrl = spec.url, !.url = Absent]
                   ELSE spec
    IN  [renamed EXCEPT !.type = Absent]

\* claude_mcp::set_mcp_servers_map, as the specification describes it: the
\* discriminant is stripped before writing, no field is renamed
claude_entry(spec) == [spec EXCEPT !.type = Absent]

WriteResult(ok, file) == [ok |-> ok, file |-> file]

\* variant that writes a document holding the server section alone
set_mcp_servers_map_fresh(file, servers, c) ==
    WriteResult(TRUE,
        LiveFile("ok", "obj",
                 [id \in DOMAIN servers |->
                     IF c = "gemini" THEN gemini_entry(servers[id])
                                     ELSE claude_entry(servers[id])],
                 "absent", EmptyMap, ""))

set_mcp_servers_map(file, servers, c) ==
    IF file.state = "invalid"
    THEN WriteResult(FALSE, file)
    ELSE IF \E id \in DOMAIN servers : ~servers[id].isObj
    THEN WriteResult(FALSE, file)
    ELSE IF file.state = "notobj"
    THEN WriteResult(FALSE, file)
    ELSE LET out == [id \in DOMAIN servers |->
                        IF c = "gemini" THEN gemini_entry(servers[id])
                                        ELSE claude_entry(servers[id])]
         IN  WriteResult(TRUE, [file EXCEPT !.state = "ok", !.mcp = "obj", !.servers = out])

\* mcp/sync/claude.rs, gemini.rs: sync_enabled_to_claude / sync_enabled_to_gemini
sync_enabled_to_json(cfg, file, c) ==
    set_mcp_servers_map(file, collect_enabled_servers(cfg.legacy[c]), c)

(***************************************************************************)
(* mcp/toml_convert.rs and mcp/sync/codex.rs: sync_enabled_to_codex        *)
(***************************************************************************)
\* the TOML table written for one server: type is always written, the
\* required field defaults to "", other string fields are copied
json_server_to_toml_table(spec) ==
    LET typ == IF AsStr(spec.type) = Absent THEN "stdio" ELSE spec.type
    IN  IF typ = "stdio"
        THEN Obj(typ, IF AsStr(spec.command) = Absent THEN "" ELSE spec.command,
                 spec.url, spec.httpUrl)
        ELSE IF typ \in {"http", "sse"}
        THEN Obj(typ, spec.command,
                 IF AsStr(spec.url) = Absent THEN "" ELSE spec.url, spec.httpUrl)
        ELSE Obj(typ, spec.command, spec.url, spec.httpUrl)

sync_enabled_to_codex(cfg, file) ==
    LET enabled == collect_enabled_servers(cfg.legacy["codex"])
    IN  IF ~read_codex_text_ok(file)
        THEN WriteResult(FALSE, file)
        ELSE LET base == IF codex_text_is_empty(file)
                         THEN LiveFile("ok", "absent", EmptyMap, "absent", EmptyMap, "")
                         ELSE file
                 \* 4) clean [mcp.servers]
                 cleaned == [base EXCEPT !.legacy = "absent", !.legacyServers = EmptyMap]
             IN  IF DOMAIN enabled = {}
                 THEN WriteResult(TRUE, [cleaned EXCEPT !.mcp = "absent", !.servers = EmptyMap])
                 ELSE WriteResult(TRUE,
                        [cleaned EXCEPT
                            !.mcp = "obj",
                            !.servers = [id \in DOMAIN enabled |->
                                            json_server_to_toml_table(enabled[id])]])

(***************************************************************************)
(* Inputs the operations are run on                                        *)
(***************************************************************************)
EmptyLegacy == [x \in Clients |-> [y \in {} |-> LegacyEntry("true", FALSE, NotObj)]]
EmptyServers == [x \in {} |-> NewServer("a", NotObj, "claude")]

\* servers already in the unified store, with different flags and UI fields
StoreServers(id) ==
    { McpServer(id, "Prev", Obj("stdio", "prev", Absent, Absent),
                McpApps(FALSE, FALSE, FALSE), "desc", "home", "docs", <<"t1">>),
      McpServer(id, id, Obj("http", Absent, "http://prev", Absent),
                McpApps(TRUE, FALSE, TRUE), Absent, Absent, Absent, <<>>),
      McpServer(id, "All", Obj("sse", Absent, "http://prev", Absent),
                McpApps(TRUE, TRUE, TRUE), "desc", Absent, Absent, <<"t1", "t2">>) }

StoreIds == {"a", "b"}

Stores ==
    UNION { { m \in [D -> UNION {StoreServers(id) : id \in D}] :
                \A id \in D : m[id].id = id } : D \in SUBSET StoreIds }

\* entries a live file can hold: valid ones, ones failing validation, a non-object
LiveEntries ==
    { Obj("stdio", "echo", Absent, Absent),
      Obj(Absent, "echo", Absent, Absent),
      Obj("http", Absent, "http://x", Absent),
      Obj("sse", Absent, "http://x", Absent),
      Obj("stdio", " ", Absent, Absent),
      Obj("ws", Absent, "http://x", Absent),
      NotObj }

LiveMaps == UNION { [D -> LiveEntries] : D \in SUBSET Ids }

JsonFiles ==
    {AbsentFile, InvalidFile,
     LiveFile("notobj", "absent", EmptyMap, "absent", EmptyMap, ""),
     LiveFile("ok", "absent", EmptyMap, "absent", EmptyMap, "theme"),
     LiveFile("ok", "nonobj", EmptyMap, "absent", EmptyMap, "theme")}
    \cup {LiveFile("ok", "obj", m, "absent", EmptyMap, "theme") : m \in LiveMaps}

TomlFiles ==
    {AbsentFile, InvalidFile,
     LiveFile("ok", "absent", EmptyMap, "absent", EmptyMap, ""),
     LiveFile("ok", "nonobj", EmptyMap, "absent", EmptyMap, "model")}
    \cup {LiveFile("ok", "obj", m, "absent", EmptyMap, "model") : m \in LiveMaps}
    \cup {LiveFile("ok", "absent", EmptyMap, "obj", m, "model") : m \in LiveMaps}

FilesOf(c) == IF c = "codex" THEN TomlFiles ELSE JsonFiles

\* entries of a per-client McpConfig
LegacyEntries ==
    { LegacyEntry("true", TRUE, Obj("stdio", "echo", Absent, Absent)),
      LegacyEntry("true", TRUE, Obj(Absent, "echo", Absent, Absent)),
      LegacyEntry("true", TRUE, Obj("http", Absent, "http://x", Absent)),
      LegacyEntry("true", TRUE, Obj("sse", Absent, "http://x", Absent)),
      LegacyEntry("false", TRUE, Obj("stdio", "echo", Absent, Absent)),
      LegacyEntry(Absent, TRUE, Obj("stdio", "echo", Absent, Absent)),
      LegacyEntry("true", FALSE, NotObj) }

LegacyIds == {"a", "b"}

LegacyMaps == UNION { [D -> LegacyEntries] : D \in SUBSET LegacyIds }

\* unified stores an exporter is handed
ExportStores ==
    { EmptyServers,
      [id \in {"a"} |->
          McpServer(id, "All", Obj("stdio", "echo", Absent, Absent),
                    McpApps(TRUE, TRUE, TRUE), "desc", Absent, Absent, <<>>)],
      [id \in {"a", "c"} |->
          McpServer(id, id, Obj("stdio", "echo", Absent, Absent),
                    McpApps(id = "a", id = "a", id = "a"), Absent, Absent, Absent, <<>>)] }

\* live files an exporter finds
StaleMap == [id \in {"a", "c"} |-> Obj("stdio", "old", Absent, Absent)]

ExportFiles(c) ==
    IF c = "codex"
    THEN {AbsentFile, InvalidFile,
          LiveFile("ok", "obj", StaleMap, "absent", EmptyMap, "model"),
          LiveFile("ok", "absent", EmptyMap, "obj", StaleMap, "model")}
    ELSE {AbsentFile, InvalidFile,
          LiveFile("notobj", "absent", EmptyMap, "absent", EmptyMap, ""),
          LiveFile("ok", "obj", StaleMap, "absent", EmptyMap, "theme")}

NoOp(cfg, lv) ==
    [op |-> "init", client |-> "none", ok |-> TRUE, changed |-> 0,
     preConfig |-> cfg, preLive |-> lv]

(***************************************************************************)
(* Operations on the MCP configuration                                     *)
(***************************************************************************)
DoImport(c, r) ==
    /\ steps < MaxSteps
    /\ config' = r.cfg
    /\ last' = [op |-> "import", client |-> c, ok |-> r.ok, changed |-> r.changed,
                preConfig |-> config, preLive |-> live]
    /\ prevOp' = last
    /\ steps' = steps + 1
    /\ UNCHANGED <<live, db, mig, fs, imp, auxVars>>

ImportFromClaude == DoImport("claude", import_from_json(config, live["claude"], "claude"))
ImportFromGemini == DoImport("gemini", import_from_json(config, live["gemini"], "gemini"))
ImportFromCodex == DoImport("codex", import_from_codex(config, live["codex"]))

DoExport(c, r) ==
    /\ steps < MaxSteps
    /\ live' = [live EXCEPT ![c] = r.file]
    /\ last' = [op |-> "export", client |-> c, ok |-> r.ok, changed |-> 0,
                preConfig |-> config, preLive |-> live]
    /\ prevOp' = last
    /\ steps' = steps + 1
    /\ UNCHANGED <<config, db, mig, fs, imp, auxVars>>

SyncEnabledToClaude == DoExport("claude", sync_enabled_to_json(config, live["claude"], "claude"))
SyncEnabledToGemini == DoExport("gemini", sync_enabled_to_json(config, live["gemini"], "gemini"))
SyncEnabledToCodex == DoExport("codex", sync_enabled_to_codex(config, live["codex"]))

(***************************************************************************)
(* database/schema.rs: the durable store's schema                          *)
(***************************************************************************)
SCHEMA_VERSION == 1

TableOrder == <<"providers", "provider_endpoints", "mcp_servers", "prompts",
                "skills", "skill_repos", "settings">>
Tables == {TableOrder[i] : i \in 1..Len(TableOrder)}

\* columns given by create_tables_on_conn
CurrentColumns ==
    [providers |-> {"id", "app_type", "name", "settings_config", "website_url",
                    "category", "created_at", "sort_index", "notes", "icon",
                    "icon_color", "meta", "is_current"},
     provider_endpoints |-> {"id", "provider_id", "app_type", "url", "added_at"},
     mcp_servers |-> {"id", "name", "server_config", "description", "homepage",
                      "docs", "tags", "enabled_claude", "enabled_codex",
                      "enabled_gemini"},
     prompts |-> {"id", "app_type", "name", "content", "description", "enabled",
                  "created_at", "updated_at"},
     skills |-> {"key", "installed", "installed_at"},
     skill_repos |-> {"owner", "name", "branch", "enabled", "skills_path"},
     settings |-> {"key", "value"}]

\* columns of the oldest schema (LEGACY_SCHEMA_SQL of the migration tests)
LegacyColumns ==
    [providers |-> {"id", "app_type", "name", "settings_config"},
     provider_endpoints |-> {"id", "provider_id", "app_type", "url"},
     mcp_servers |-> {"id", "name", "server_config"},
     prompts |-> {"id", "app_type", "name", "content"},
     skills |-> {"key", "installed"},
     skill_repos |-> {"owner", "name"},
     settings |-> {"key", "value"}]

\* the add_column_if_missing calls of the version 0 -> 1 step, in order
MigrationSteps ==
    << <<"providers", "category">>, <<"providers", "created_at">>,
       <<"providers", "sort_index">>, <<"providers", "notes">>,
       <<"providers", "icon">>, <<"providers", "icon_color">>,
       <<"providers", "meta">>, <<"providers", "is_current">>,
       <<"provider_endpoints", "added_at">>,
       <<"mcp_servers", "description">>, <<"mcp_servers", "homepage">>,
       <<"mcp_servers", "docs">>, <<"mcp_servers", "tags">>,
       <<"mcp_servers", "enabled_codex">>, <<"mcp_servers", "enabled_gemini">>,
       <<"prompts", "description">>, <<"prompts", "enabled">>,
       <<"prompts", "created_at">>, <<"prompts", "updated_at">>,
       <<"skills", "installed_at">>,
       <<"skill_repos", "branch">>, <<"skill_repos", "enabled">>,
       <<"skill_repos", "skills_path">> >>

\* a store: PRAGMA user_version, the tables with their columns, row counts
\* of the two primary tables
Store(version, tables, providers, mcp) ==
    [version |-> version, tables |-> tables,
     rows |-> [providers |-> providers, mcp_servers |-> mcp]]

\* create_tables_on_conn: CREATE TABLE IF NOT EXISTS for the seven tables
create_tables_on_conn(d) ==
    [d EXCEPT !.tables = [t \in Tables |->
                            IF t \in DOMAIN d.tables THEN d.tables[t]
                                                     ELSE CurrentColumns[t]]]

StepResult(ok, d) == [ok |-> ok, db |-> d]

\* add_column_if_missing; failAt names the step whose ALTER TABLE errors
add_column_if_missing(d, i, failAt) ==
    LET table == MigrationSteps[i][1]
        column == MigrationSteps[i][2]
    IN  IF table \notin DOMAIN d.tables
        THEN StepResult(FALSE, d)
        ELSE IF column \in d.tables[table]
        THEN StepResult(TRUE, d)
        ELSE IF failAt = i
        THEN StepResult(FALSE, d)
        ELSE StepResult(TRUE, [d EXCEPT !.tables[table] = @ \cup {column}])

\* the body of match arm 0: the column steps, then set_user_version
RECURSIVE migrate_v0(_, _, _)
migrate_v0(d, i, failAt) ==
    IF i > Len(MigrationSteps)
    THEN StepResult(TRUE, [d EXCEPT !.version = SCHEMA_VERSION])
    ELSE LET r == add_column_if_missing(d, i, failAt)
         IN  IF r.ok THEN migrate_v0(r.db, i + 1, failAt) ELSE r

\* the while loop of the migration closure
RECURSIVE migration_loop(_, _)
migration_loop(d, failAt) ==
    IF d.version >= SCHEMA_VERSION
    THEN StepResult(TRUE, d)
    ELSE IF d.version = 0
    THEN LET r == migrate_v0(d, 1, failAt)
         IN  IF r.ok THEN migration_loop(r.db, failAt) ELSE r
    ELSE StepResult(FALSE, d)

\* variant in which the rollback has no effect
rollback_keeps_changes(saved, current) == current

\* ROLLBACK TO schema_migration: the store as it was at the SAVEPOINT
rollback_to_savepoint(saved, current) == saved

\* apply_schema_migrations_on_conn
apply_schema_migrations_on_conn(d, failAt) ==
    IF d.version > SCHEMA_VERSION
    THEN [ok |-> FALSE, err |-> "too_new", db |-> rollback_to_savepoint(d, d),
          partial |-> d]
    ELSE LET r == migration_loop(d, failAt)
         IN  IF r.ok
             THEN [ok |-> TRUE, err |-> "none", db |-> r.db, partial |-> r.db]
             ELSE [ok |-> FALSE,
                   err |-> IF d.version = 0 THEN "step" ELSE "unknown_version",
                   db |-> rollback_to_savepoint(d, r.db),
                   partial |-> r.db]

\* Database::init: create_tables, then apply_schema_migrations
database_init(d, failAt) ==
    apply_schema_migrations_on_conn(create_tables_on_conn(d), failAt)

(***************************************************************************)
(* Stores offered to Database::init                                        *)
(***************************************************************************)
\* tables that may be missing altogether; the others exist in the legacy
\* or in the current shape
MaybeMissing == {"providers", "mcp_servers", "skills"}

Shapes(t) == IF t \in MaybeMissing THEN {"absent", "legacy", "current"}
                                   ELSE {"legacy", "current"}

TablesOfShape(sh) ==
    [t \in {x \in Tables : sh[x] # "absent"} |->
        IF sh[t] = "legacy" THEN LegacyColumns[t] ELSE CurrentColumns[t]]

ShapeSet == {sh \in [Tables -> {"absent", "legacy", "current"}] :
                \A t \in Tables : sh[t] \in Shapes(t)}

StoredVersions == {-1, 0, SCHEMA_VERSION, SCHEMA_VERSION + 1}

RowsIn(tables, t) == IF t \in DOMAIN tables THEN 1 ELSE 0

StoresOnDisk ==
    { Store(v, TablesOfShape(sh),
            RowsIn(TablesOfShape(sh), "providers"),
            RowsIn(TablesOfShape(sh), "mcp_servers")) :
        v \in StoredVersions, sh \in ShapeSet }

\* a store as create_tables leaves it on first start
FreshStore == Store(SCHEMA_VERSION, CurrentColumns, 1, 0)

FailPoints == 0..Len(MigrationSteps)

\* mig records the last run: the store before it, its outcome, and the
\* store as the failing step left it before the rollback
NoMig == [op |-> "none", ok |-> TRUE, err |-> "none", pre |-> FreshStore,
          partial |-> FreshStore, count |-> 0]

DoOpen(op, r) ==
    /\ mig.count < MaxOpens
    /\ db' = r.db
    /\ mig' = [op |-> op, ok |-> r.ok, err |-> r.err, pre |-> db,
               partial |-> r.partial, count |-> mig.count + 1]
    /\ UNCHANGED <<config, live, last, prevOp, steps, fs, imp, auxVars>>

\* Database::init on the store found on disk
OpenDatabase == \E failAt \in FailPoints : DoOpen("init", database_init(db, failAt))

\* apply_schema_migrations_on_conn called on a connection directly
ApplyMigrations ==
    \E failAt \in FailPoints : DoOpen("migrate", apply_schema_migrations_on_conn(db, failAt))

(***************************************************************************)
(* database/backup.rs: backup_database_file, cleanup_db_backups            *)
(***************************************************************************)
DB_BACKUP_RETAIN == 10

NoPath == -1

BackupFile(mtime, content) == [mtime |-> mtime, content |-> content]
NoBackups == [n \in {} |-> BackupFile(0, FreshStore)]

\* variant that sorts the newest entry first
Newest(files) ==
    CHOOSE n \in DOMAIN files :
        \A m \in DOMAIN files : files[n].mtime >= files[m].mtime

\* the entry sort_by_key(modified) puts first
Oldest(files) ==
    CHOOSE n \in DOMAIN files :
        \A m \in DOMAIN files : files[n].mtime <= files[m].mtime

\* sorted.into_iter().take(remove_count): remove the oldest, remove_count times
RECURSIVE remove_oldest(_, _)
remove_oldest(files, remove_count) ==
    IF remove_count = 0 \/ DOMAIN files = {}
    THEN files
    ELSE remove_oldest([n \in (DOMAIN files) \ {Oldest(files)} |-> files[n]],
                       remove_count - 1)

cleanup_db_backups(files) ==
    IF Cardinality(DOMAIN files) <= DB_BACKUP_RETAIN
    THEN files
    ELSE remove_oldest(files, Cardinality(DOMAIN files) - DB_BACKUP_RETAIN)

\* backup_database_file at clock second sec: the file is named after the
\* second, written from the live store, then the directory is pruned
backup_database_file(f, d, sec) ==
    IF ~f.dbFileExists
    THEN [path |-> NoPath, fs |-> [f EXCEPT !.sec = sec, !.created = NoPath, !.deleted = {}]]
    ELSE LET written == [n \in (DOMAIN f.backups) \cup {sec} |->
                            IF n = sec THEN BackupFile(sec, d) ELSE f.backups[n]]
             kept == cleanup_db_backups(written)
         IN  [path |-> sec,
              fs |-> [f EXCEPT !.sec = sec, !.backups = kept, !.created = sec,
                               !.deleted = {written[n].mtime :
                                               n \in (DOMAIN written) \ (DOMAIN kept)}]]

(***************************************************************************)
(* database/backup.rs: import_sql, validate_basic_state                    *)
(***************************************************************************)
validate_basic_state(d) ==
    ~(d.rows["providers"] = 0 /\ d.rows["mcp_servers"] = 0)

\* variant that writes the live store without the sanity check
next_step_skip_validate(pc) ==
    CASE pc = "backup" -> "exec"
      [] pc = "exec" -> "tables"
      [] pc = "tables" -> "migrate"
      [] pc = "migrate" -> "copy"
      [] pc = "validate" -> "copy"
      [] pc = "copy" -> "done"

\* variant that writes the live store before the sanity check
next_step_copy_first(pc) ==
    CASE pc = "backup" -> "exec"
      [] pc = "exec" -> "tables"
      [] pc = "tables" -> "migrate"
      [] pc = "migrate" -> "copy"
      [] pc = "copy" -> "validate"
      [] pc = "validate" -> "done"

\* the order of the steps of import_sql
next_step(pc) ==
    CASE pc = "backup" -> "exec"
      [] pc = "exec" -> "tables"
      [] pc = "tables" -> "migrate"
      [] pc = "migrate" -> "validate"
      [] pc = "validate" -> "copy"
      [] pc = "copy" -> "done"

SqlFile(kind, image) == [kind |-> kind, image |-> image]

NoTables == [t \in {} |-> {}]

\* files offered to import_sql: a missing path, text that is not SQL, dumps
SqlFiles ==
    { SqlFile("missing", FreshStore),
      SqlFile("badsql", FreshStore),
      SqlFile("sql", Store(SCHEMA_VERSION, CurrentColumns, 1, 1)),
      SqlFile("sql", Store(0, LegacyColumns, 0, 1)),
      SqlFile("sql", Store(SCHEMA_VERSION, CurrentColumns, 0, 0)),
      SqlFile("sql", Store(SCHEMA_VERSION + 1, CurrentColumns, 1, 0)) }

IdleImport ==
    [pc |-> "idle", src |-> SqlFile("missing", FreshStore), pre |-> FreshStore,
     backupPath |-> NoPath, scratch |-> Store(0, NoTables, 0, 0),
     done |-> {}, liveWritten |-> FALSE, result |-> "none", count |-> 0]

ImportFail(reason) == imp' = [imp EXCEPT !.pc = "done", !.result = reason]
ImportAdvance(step) == [imp EXCEPT !.pc = next_step(step), !.done = @ \cup {step}]

\* source_path.exists(), read_to_string, sanitize_import_sql
ImportBegin ==
    /\ imp.pc = "idle"
    /\ imp.count < MaxImports
    /\ \E src \in SqlFiles :
          IF src.kind = "missing"
          THEN imp' = [imp EXCEPT !.src = src, !.pre = db, !.count = @ + 1,
                                  !.pc = "done", !.result = "err_missing"]
          ELSE imp' = [imp EXCEPT !.src = src, !.pre = db, !.count = @ + 1,
                                  !.pc = "backup"]
    /\ UNCHANGED <<config, live, last, prevOp, steps, db, mig, fs, auxVars>>

\* let backup_path = self.backup_database_file()?
ImportBackup ==
    /\ imp.pc = "backup"
    /\ \E sec \in {fs.sec, fs.sec + 1} :
          /\ sec <= MaxSec
          /\ LET r == backup_database_file(fs, db, sec)
             IN  /\ fs' = r.fs
                 /\ imp' = [ImportAdvance("backup") EXCEPT !.backupPath = r.path]
    /\ UNCHANGED <<config, live, last, prevOp, steps, db, mig, auxVars>>

\* temp_conn.execute_batch(&sql_content)
ImportExec ==
    /\ imp.pc = "exec"
    /\ IF imp.src.kind = "badsql"
       THEN ImportFail("err_exec")
       ELSE imp' = [ImportAdvance("exec") EXCEPT !.scratch = imp.src.image]
    /\ UNCHANGED <<config, live, last, prevOp, steps, db, mig, fs, auxVars>>

\* Self::create_tables_on_conn(&temp_conn)?
ImportCreateTables ==
    /\ imp.pc = "tables"
    /\ imp' = [ImportAdvance("tables") EXCEPT !.scratch = create_tables_on_conn(imp.scratch)]
    /\ UNCHANGED <<config, live, last, prevOp, steps, db, mig, fs, auxVars>>

\* Self::apply_schema_migrations_on_conn(&temp_conn)?
ImportMigrate ==
    /\ imp.pc = "migrate"
    /\ LET r == apply_schema_migrations_on_conn(imp.scratch, 0)
       IN  IF r.ok
           THEN imp' = [ImportAdvance("migrate") EXCEPT !.scratch = r.db]
           ELSE ImportFail("err_migrate")
    /\ UNCHANGED <<config, live, last, prevOp, steps, db, mig, fs, auxVars>>

\* Self::validate_basic_state(&temp_conn)?
ImportValidate ==
    /\ imp.pc = "validate"
    /\ IF validate_basic_state(imp.scratch)
       THEN imp' = ImportAdvance("validate")
       ELSE ImportFail("err_validate")
    /\ UNCHANGED <<config, live, last, prevOp, steps, db, mig, fs, auxVars>>

\* Backup::new(&temp_conn, &mut main_conn).step(-1), then Ok(backup_id)
ImportCopy ==
    /\ imp.pc = "copy"
    /\ db' = imp.scratch
    /\ imp' = [ImportAdvance("copy") EXCEPT !.liveWritten = TRUE, !.result = "ok"]
    /\ UNCHANGED <<config, live, last, prevOp, steps, mig, fs, auxVars>>

\* import_sql has returned; the caller drops its locals
ImportReturn ==
    /\ imp.pc = "done"
    /\ imp' = [IdleImport EXCEPT !.count = imp.count]
    /\ UNCHANGED <<config, live, last, prevOp, steps, db, mig, fs, auxVars>>

\* backup_database_file called on its own (create_backup)
CreateBackup ==
    /\ imp.pc = "idle"
    /\ \E sec \in {fs.sec, fs.sec + 1} :
          /\ sec <= MaxSec
          /\ fs' = backup_database_file(fs, db, sec).fs
    /\ UNCHANGED <<config, live, last, prevOp, steps, db, mig, imp, auxVars>>

\* database/dao/mcp.rs: save_mcp_server inserting a new row
SaveMcpServer ==
    /\ imp.pc = "idle"
    /\ "mcp_servers" \in DOMAIN db.tables
    /\ db.rows["mcp_servers"] < MaxRows
    /\ db' = [db EXCEPT !.rows["mcp_servers"] = @ + 1]
    /\ UNCHANGED <<config, live, last, prevOp, steps, mig, fs, imp, auxVars>>

\* save_mcp_server on another thread while import_sql is between two of its
\* steps: the lock is free there, import_sql holds it only inside
\* backup_database_file and inside the final copy
SaveMcpServerDuringImport ==
    /\ imp.pc \notin {"idle", "done"}
    /\ "mcp_servers" \in DOMAIN db.tables
    /\ db.rows["mcp_servers"] < MaxRows
    /\ db' = [db EXCEPT !.rows["mcp_servers"] = @ + 1]
    /\ UNCHANGED <<config, live, last, prevOp, steps, mig, fs, imp, auxVars>>

NoFs == [dbFileExists |-> TRUE, sec |-> 0, backups |-> NoBackups,
         created |-> NoPath, deleted |-> {}]

(***************************************************************************)
(* config.rs: atomic_write, and the writers of the live files              *)
(***************************************************************************)
MaxWrites == 2      \* file writes in one behaviour

\* content of a file: which call's data it holds and how much of it
Bytes(k, len) == [data |-> k, len |-> len]
Missing == Bytes(0, "missing")

WriteKinds == {"export", "single", "remove"}

\* claude_mcp::set_mcp_servers_map, as the specification describes it
claude_writer(kind) == "atomic"

\* how an operation writes a client's live file: write_json_value /
\* write_text_file end in atomic_write, std::fs::write writes in place
writer_of(client, kind) ==
    IF client = "codex"
    THEN IF kind = "export" THEN "atomic" ELSE "direct"
    ELSE IF client = "gemini" THEN "atomic"
    ELSE IF client = "claude" THEN claude_writer(kind)
    ELSE "atomic"

\* variant that renames the temp file before its data is written
aw_next_rename_first(pc, windows) ==
    CASE pc = "mkdir" -> "create"
      [] pc = "create" -> "rename"
      [] pc = "rename" -> "write"
      [] pc = "write" -> "flush"
      [] pc = "flush" -> "perms"
      [] pc = "perms" -> "done"
      [] pc = "remove" -> "rename"

\* the order of the steps of atomic_write
aw_next(pc, windows) ==
    CASE pc = "mkdir" -> "create"
      [] pc = "create" -> "write"
      [] pc = "write" -> "flush"
      [] pc = "flush" -> "perms"
      [] pc = "perms" -> IF windows THEN "remove" ELSE "rename"
      [] pc = "remove" -> "rename"
      [] pc = "rename" -> "done"

WrIdle ==
    [pc |-> "idle", count |-> 0, client |-> "none", kind |-> "raw",
     writer |-> "atomic", windows |-> FALSE, target |-> Missing,
     tmp |-> Missing, pre |-> Missing, renamed |-> FALSE, result |-> "none"]

WrAdvance == [wr EXCEPT !.pc = aw_next(wr.pc, wr.windows),
                        !.result = IF aw_next(wr.pc, wr.windows) = "done"
                                   THEN "ok" ELSE @]
WrFail == [wr EXCEPT !.pc = "done", !.result = "err"]

WrFrame == UNCHANGED <<mcpVars, dbVars, bkVars, drv, conv, call, thr>>

\* a call of atomic_write itself, or of an operation that writes a live file
WriteBegin ==
    /\ wr.pc = "idle"
    /\ wr.count < MaxWrites
    /\ \E client \in Clients \cup {"none"} : \E kind \in WriteKinds :
          LET w == writer_of(client, kind)
              started == [wr EXCEPT !.count = @ + 1, !.client = client,
                                    !.kind = IF client = "none" THEN "raw" ELSE kind,
                                    !.writer = w, !.pre = wr.target,
                                    !.tmp = Missing, !.renamed = FALSE,
                                    !.result = "none"]
          IN  /\ client = "none" => kind = "export"
              /\ wr' = IF client = "codex" /\ kind = "remove" /\ wr.target = Missing
                       THEN [started EXCEPT !.pc = "done", !.result = "ok"]
                       ELSE [started EXCEPT !.pc = IF w = "atomic" THEN "mkdir"
                                                                  ELSE "truncate"]
    /\ WrFrame

\* fs::create_dir_all(parent)
AwCreateDir ==
    /\ wr.pc = "mkdir"
    /\ \E ok \in BOOLEAN : wr' = IF ok THEN WrAdvance ELSE WrFail
    /\ WrFrame

\* fs::File::create(&tmp)
AwCreateTmp ==
    /\ wr.pc = "create"
    /\ \E ok \in BOOLEAN :
          wr' = IF ok THEN [WrAdvance EXCEPT !.tmp = Bytes(wr.count, "zero")]
                      ELSE WrFail
    /\ WrFrame

\* f.write_all(data): the data reaches the temp file in one or more writes
AwWriteAll ==
    /\ wr.pc = "write"
    /\ \/ /\ wr.tmp.len = "zero"
          /\ wr' = [wr EXCEPT !.tmp = Bytes(wr.count, "part")]
       \/ /\ wr.tmp # Missing
          /\ wr' = [WrAdvance EXCEPT !.tmp = Bytes(wr.count, "full")]
       \/ wr' = WrFail
    /\ WrFrame

\* f.flush()
AwFlush ==
    /\ wr.pc = "flush"
    /\ \E ok \in BOOLEAN : wr' = IF ok THEN WrAdvance ELSE WrFail
    /\ WrFrame

\* cfg(unix): the target's mode is copied to the temp file, errors ignored
AwPermissions ==
    /\ wr.pc = "perms"
    /\ wr' = WrAdvance
    /\ WrFrame

\* cfg(windows): fs::remove_file(path) if the target exists, errors ignored
AwRemoveExisting ==
    /\ wr.pc = "remove"
    /\ \E ok \in BOOLEAN :
          wr' = IF ok THEN [WrAdvance EXCEPT !.target = Missing] ELSE WrAdvance
    /\ WrFrame

\* fs::rename(&tmp, path)
AwRename ==
    /\ wr.pc = "rename"
    /\ \E ok \in BOOLEAN :
          wr' = IF ok /\ wr.tmp # Missing /\ ~(wr.windows /\ wr.target # Missing)
                THEN [WrAdvance EXCEPT !.target = wr.tmp, !.tmp = Missing,
                                       !.renamed = TRUE]
                ELSE WrFail
    /\ WrFrame

\* std::fs::write(&config_path, ..): File::create truncates the target
DirectCreate ==
    /\ wr.pc = "truncate"
    /\ \E ok \in BOOLEAN :
          wr' = IF ok THEN [wr EXCEPT !.pc = "dwrite", !.target = Bytes(wr.count, "zero")]
                      ELSE WrFail
    /\ WrFrame

\* std::fs::write(&config_path, ..): write_all into the target itself
DirectWriteAll ==
    /\ wr.pc = "dwrite"
    /\ \/ /\ wr.target.len = "zero"
          /\ wr' = [wr EXCEPT !.target = Bytes(wr.count, "part")]
       \/ wr' = [wr EXCEPT !.target = Bytes(wr.count, "full"), !.pc = "done",
                           !.result = "ok"]
       \/ wr' = WrFail
    /\ WrFrame

\* the process stops in the middle of a write
WriteCrash ==
    /\ wr.pc \notin {"idle", "done"}
    /\ wr' = [wr EXCEPT !.pc = "done", !.result = "crashed"]
    /\ WrFrame

\* the call has returned (or the process was started again)
WriteReturn ==
    /\ wr.pc = "done"
    /\ wr' = [wr EXCEPT !.pc = "idle"]
    /\ WrFrame

(***************************************************************************)
(* mcp/helpers.rs: normalize_server_keys, set_enabled_flag_for;            *)
(* app_config.rs: McpApps::set_enabled_for                                 *)
(***************************************************************************)
\* str::trim on the strings an embedded id takes in the model
Trim(x) == IF x = " a" THEN "a" ELSE IF x = " " THEN "" ELSE x

\* an entry of a per-client map that carries an embedded id
IdEntry(id, enabled) ==
    [isObj |-> TRUE, id |-> id, enabled |-> enabled, hasServer |-> TRUE,
     server |-> Obj("stdio", "echo", Absent, Absent)]

\* an entry of a per-client map that is not a JSON object
NonObjEntry ==
    [isObj |-> FALSE, id |-> Absent, enabled |-> Absent, hasServer |-> FALSE,
     server |-> NotObj]

\* first loop of normalize_server_keys on one entry: the embedded id is
\* set to the key when it is missing, not a string or blank, and trimmed
\* otherwise; target is the key the entry should live under
normalize_entry(key, e) ==
    IF ~e.isObj
    THEN [entry |-> e, target |-> key, changes |-> 0]
    ELSE IF AsStr(e.id) = Absent
    THEN [entry |-> [e EXCEPT !.id = key], target |-> key, changes |-> 1]
    ELSE LET trimmed == Trim(e.id)
         IN  IF trimmed = ""
             THEN [entry |-> [e EXCEPT !.id = key], target |-> key, changes |-> 1]
             ELSE [entry |-> [e EXCEPT !.id = trimmed], target |-> trimmed,
                   changes |-> IF trimmed # e.id THEN 1 ELSE 0]

\* the second loop without the check for a key in use: the entry is moved
\* onto new_key whether or not another entry lives there
RECURSIVE apply_renames_overwrite(_, _, _)
apply_renames_overwrite(acc, renames, i) ==
    IF i > Len(renames)
    THEN acc
    ELSE LET old_key == renames[i][1]
             new_key == renames[i][2]
         IN  apply_renames_overwrite(
                 [map |-> MapInsert(MapRemove(acc.map, old_key), new_key,
                                    [acc.map[old_key] EXCEPT !.id = new_key]),
                  count |-> acc.count + 1], renames, i + 1)

\* second loop of normalize_server_keys: the renames, in the order the
\* first loop met them; a rename onto a key in use resets the embedded id
RECURSIVE apply_renames(_, _, _)
apply_renames(acc, renames, i) ==
    IF i > Len(renames)
    THEN acc
    ELSE LET old_key == renames[i][1]
             new_key == renames[i][2]
         IN  IF new_key \in DOMAIN acc.map
             THEN IF acc.map[old_key].isObj /\ acc.map[old_key].id # old_key
                  THEN apply_renames([map |-> [acc.map EXCEPT ![old_key].id = old_key],
                                      count |-> acc.count + 1], renames, i + 1)
                  ELSE apply_renames(acc, renames, i + 1)
             ELSE apply_renames(
                      [map |-> MapInsert(MapRemove(acc.map, old_key), new_key,
                                         [acc.map[old_key] EXCEPT !.id = new_key]),
                       count |-> acc.count + 1], renames, i + 1)

RECURSIVE SumChanges(_, _, _)
SumChanges(map, order, i) ==
    IF i > Len(order) THEN 0
    ELSE normalize_entry(order[i], map[order[i]]).changes + SumChanges(map, order, i + 1)

RECURSIVE RenamesOf(_, _, _)
RenamesOf(map, order, i) ==
    IF i > Len(order) THEN <<>>
    ELSE LET k == order[i]
             t == normalize_entry(k, map[k]).target
         IN  IF t # k THEN <<(<<k, t>>)>> \o RenamesOf(map, order, i + 1)
                      ELSE RenamesOf(map, order, i + 1)

\* normalize_server_keys; order is the order in which the HashMap yields
\* its keys
normalize_server_keys(map, order) ==
    LET after1 == [k \in DOMAIN map |-> normalize_entry(k, map[k]).entry]
    IN  apply_renames([map |-> after1, count |-> SumChanges(map, order, 1)],
                      RenamesOf(map, order, 1), 1)

\* the orders a HashMap can yield the keys of a map in
KeyOrders(map) ==
    {o \in [1..Cardinality(DOMAIN map) -> DOMAIN map] :
        \A i, j \in 1..Cardinality(DOMAIN map) : o[i] = o[j] => i = j}

ToggleResult(ok, existed, map) == [ok |-> ok, existed |-> existed, map |-> map]

\* set_enabled_flag_for on one client's map
set_enabled_flag_for(map, order, id, enabled) ==
    IF IsBlank(id)
    THEN ToggleResult(FALSE, FALSE, map)
    ELSE LET n == normalize_server_keys(map, order).map
         IN  IF id \in DOMAIN n
             THEN IF n[id].isObj
                  THEN ToggleResult(TRUE, TRUE,
                           [n EXCEPT ![id].enabled = IF enabled THEN "true" ELSE "false"])
                  ELSE ToggleResult(FALSE, FALSE, n)
             ELSE ToggleResult(TRUE, FALSE, n)

\* McpApps::set_enabled_for
set_enabled_for(apps, c, enabled) == [apps EXCEPT ![c] = enabled]

\* McpService::toggle_app, as the specification describes it: one flag of
\* a known server is set, an unknown id is a no-op
toggle_app(servers, id, c, enabled) ==
    IF id \in DOMAIN servers
    THEN ToggleResult(TRUE, TRUE,
             [servers EXCEPT ![id].apps = set_enabled_for(@, c, enabled)])
    ELSE ToggleResult(TRUE, FALSE, servers)

\* per-client maps the toggle runs on
IdEntries(key) ==
    {IdEntry(i, "true") : i \in {key, Absent, " a", "c"}} \cup {NonObjEntry}

IdMaps ==
    UNION { {mp \in [D -> UNION {IdEntries(k) : k \in D}] :
                \A k \in D : mp[k] \in IdEntries(k)} : D \in SUBSET {"a", "b"} }

ToggleIds == {"a", "b", "c", ""}

MaxToggles == 1     \* toggles in one behaviour

\* unified stores the toggle runs on
ToggleStores ==
    {EmptyServers,
     [id \in {"a"} |-> NewServer("a", Obj("stdio", "echo", Absent, Absent), "codex")]}

ToggleRecord(op, c, id, enabled, r) ==
    [op |-> op, client |-> c, id |-> id, enabled |-> enabled, ok |-> r.ok,
     existed |-> r.existed, changed |-> 0, preConfig |-> config, preLive |-> live]

\* set_enabled_flag_for(config, app, id, enabled)
SetEnabledFlagFor ==
    /\ steps < MaxToggles
    /\ \E c \in Clients : \E id \in ToggleIds : \E enabled \in BOOLEAN :
       \E order \in KeyOrders(config.legacy[c]) :
          LET r == set_enabled_flag_for(config.legacy[c], order, id, enabled)
          IN  /\ config' = [config EXCEPT !.legacy[c] = r.map]
              /\ last' = ToggleRecord("set_enabled_flag_for", c, id, enabled, r)
    /\ prevOp' = last
    /\ steps' = steps + 1
    /\ UNCHANGED <<live, dbVars, bkVars, auxVars>>

\* McpService::toggle_app(state, id, app, enabled)
ToggleApp ==
    /\ steps < MaxToggles
    /\ \E c \in Clients : \E id \in ToggleIds \ {""} : \E enabled \in BOOLEAN :
          LET r == toggle_app(config.servers, id, c, enabled)
          IN  /\ config' = [config EXCEPT !.servers = r.map]
              /\ last' = ToggleRecord("toggle_app", c, id, enabled, r)
    /\ prevOp' = last
    /\ steps' = steps + 1
    /\ UNCHANGED <<live, dbVars, bkVars, auxVars>>

\* per-client maps normalize_servers_for runs on: an embedded id may be
\* the key of another entry
NormalizeKeys == {"a", "b", "c", " a"}

NormalizeEntries ==
    {IdEntry(i, "true") : i \in NormalizeKeys \cup {" a", "", Absent, NonStr}}
        \cup {NonObjEntry}

NormalizeMaps == UNION {[D -> NormalizeEntries] : D \in SUBSET NormalizeKeys}

MaxNormalizes == 1     \* calls of normalize_servers_for in one behaviour

\* normalize_servers_for(config, app)
NormalizeServersFor ==
    /\ steps < MaxNormalizes
    /\ \E c \in Clients : \E order \in KeyOrders(config.legacy[c]) :
          LET r == normalize_server_keys(config.legacy[c], order)
          IN  /\ config' = [config EXCEPT !.legacy[c] = r.map]
              /\ last' = [ToggleRecord("normalize_servers_for", c, "", FALSE,
                                       ToggleResult(TRUE, FALSE, r.map))
                             EXCEPT !.changed = r.count]
    /\ prevOp' = last
    /\ steps' = steps + 1
    /\ UNCHANGED <<live, dbVars, bkVars, auxVars>>

(***************************************************************************)
(* app_config.rs: MultiAppConfig::migrate_mcp_to_unified                   *)
(***************************************************************************)
\* the clients in the order the migration collects their servers
MigrateOrder == <<"claude", "codex", "gemini">>

\* entry.get("enabled").and_then(|v| v.as_bool()).unwrap_or(true)
entry_enabled(entry) == entry.enabled # "false"

\* entry.get("server").cloned().unwrap_or(json!({}))
entry_server(entry) ==
    IF entry.hasServer THEN entry.server ELSE Obj(Absent, Absent, Absent, Absent)

\* one entry of one client: a known id gets the client's flag, a new id
\* becomes a server with the entry's spec as it stands
migrate_entry(unified, c, id, entry) ==
    IF id \in DOMAIN unified
    THEN [unified EXCEPT ![id].apps = set_enabled_for(@, c, entry_enabled(entry))]
    ELSE MapInsert(unified, id,
             McpServer(id, id, entry_server(entry),
                       set_enabled_for(McpApps(FALSE, FALSE, FALSE), c, entry_enabled(entry)),
                       Absent, Absent, Absent, <<>>))

RECURSIVE migrate_ids(_, _, _, _)
migrate_ids(unified, c, old_servers, i) ==
    IF i > Len(IdOrder)
    THEN unified
    ELSE IF IdOrder[i] \in DOMAIN old_servers
    THEN migrate_ids(migrate_entry(unified, c, IdOrder[i], old_servers[IdOrder[i]]),
                     c, old_servers, i + 1)
    ELSE migrate_ids(unified, c, old_servers, i + 1)

RECURSIVE migrate_apps(_, _, _)
migrate_apps(unified, legacy, i) ==
    IF i > Len(MigrateOrder)
    THEN unified
    ELSE migrate_apps(migrate_ids(unified, MigrateOrder[i], legacy[MigrateOrder[i]], 1),
                      legacy, i + 1)

migrate_mcp_to_unified(cfg) ==
    IF cfg.some
    THEN [migrated |-> FALSE, cfg |-> cfg]
    ELSE [migrated |-> TRUE,
          cfg |-> [some |-> TRUE,
                   servers |-> migrate_apps(EmptyServers, cfg.legacy, 1),
                   legacy |-> EmptyLegacy]]

\* MultiAppConfig::migrate_mcp_to_unified
MigrateMcpToUnified ==
    /\ steps < MaxSteps
    /\ LET r == migrate_mcp_to_unified(config)
       IN  /\ config' = r.cfg
           /\ last' = [op |-> "migrate", client |-> "none", ok |-> TRUE,
                       changed |-> IF r.migrated THEN 1 ELSE 0,
                       preConfig |-> config, preLive |-> live]
    /\ prevOp' = last
    /\ steps' = steps + 1
    /\ UNCHANGED <<live, db, mig, fs, imp, auxVars>>

\* per-client maps of a v3.6 configuration: entries with a usable spec,
\* with a spec that fails validation, and without a spec
MigrateEntries ==
    { LegacyEntry("true", TRUE, Obj("stdio", "echo", Absent, Absent)),
      LegacyEntry("false", TRUE, Obj("http", Absent, "http://x", Absent)),
      LegacyEntry(Absent, TRUE, Obj(Absent, "echo", Absent, Absent)),
      LegacyEntry("true", TRUE, Obj("stdio", "", Absent, Absent)),
      LegacyEntry("true", TRUE, NotObj),
      LegacyEntry("true", FALSE, NotObj) }

MigrateMaps == UNION { [D -> MigrateEntries] : D \in SUBSET {"a"} }

\* live files the importers find next to a v3.6 configuration
MigrateFiles ==
    { AbsentFile,
      LiveFile("ok", "obj",
               [id \in {"a", "b"} |->
                   IF id = "a" THEN Obj("stdio", "echo", Absent, Absent)
                   ELSE Obj("stdio", " ", Absent, Absent)],
               "absent", EmptyMap, "") }

(***************************************************************************)
(* McpService::sync_all_enabled, the driver called by                      *)
(* LiveConfigSync::sync_current_from_db and ProviderService::switch        *)
(***************************************************************************)
MaxSyncs == 1       \* runs of the driver in one behaviour

\* variant that visits the clients in the opposite order
drv_next_reversed(pc) ==
    CASE pc = "start" -> "gemini"
      [] pc = "gemini" -> "codex"
      [] pc = "codex" -> "claude"
      [] pc = "claude" -> "done"

\* the fixed sequence of the driver, in the order of AppType
drv_next(pc) ==
    CASE pc = "start" -> "claude"
      [] pc = "claude" -> "codex"
      [] pc = "codex" -> "gemini"
      [] pc = "gemini" -> "done"

\* the exporter the driver invokes for a client
sync_enabled_to(cfg, file, c) ==
    IF c = "codex" THEN sync_enabled_to_codex(cfg, file)
                   ELSE sync_enabled_to_json(cfg, file, c)

DrvIdle ==
    [pc |-> "idle", pre |-> [x \in Clients |-> AbsentFile], written |-> <<>>,
     result |-> "none", failed |-> "none", count |-> 0]

DrvFrame == UNCHANGED <<config, last, prevOp, steps, dbVars, bkVars, wr, conv, call, thr>>

\* McpService::sync_all_enabled(state) is called
SyncAllBegin ==
    /\ drv.pc = "idle"
    /\ drv.count < MaxSyncs
    /\ drv' = [drv EXCEPT !.pc = drv_next("start"), !.pre = live, !.written = <<>>,
                          !.result = "none", !.failed = "none", !.count = @ + 1]
    /\ UNCHANGED live
    /\ DrvFrame

\* the export to the client the driver has reached; its error ends the run
SyncAllStep ==
    /\ drv.pc \in Clients
    /\ LET c == drv.pc
           r == sync_enabled_to(config, live[c], c)
       IN  IF r.ok
           THEN /\ live' = [live EXCEPT ![c] = r.file]
                /\ drv' = [drv EXCEPT !.pc = drv_next(c),
                                      !.written = Append(@, c),
                                      !.result = IF drv_next(c) = "done" THEN "ok" ELSE @]
           ELSE /\ live' = live
                /\ drv' = [drv EXCEPT !.pc = "done", !.result = "err", !.failed = c]
    /\ DrvFrame

\* the driver has returned to its caller, which passes the error on
SyncAllReturn ==
    /\ drv.pc = "done"
    /\ drv' = [drv EXCEPT !.pc = "idle"]
    /\ UNCHANGED live
    /\ DrvFrame

\* per-client configurations and live files the driver runs on
DriverLegacy(c) ==
    { EmptyLegacy[c],
      [id \in {"a"} |-> LegacyEntry("true", TRUE, Obj("stdio", "echo", Absent, Absent))] }

(***************************************************************************)
(* mcp/toml_convert.rs: json_value_to_toml_item                            *)
(***************************************************************************)
MaxArrayLen == 3    \* elements of an array or object handed to the converter

\* a serde_json::Value: its kind, and for an array or an object the kinds
\* of its elements or of its values; "u64" is a number above i64::MAX
JsonValue(k, items) == [k |-> k, items |-> items]

ScalarKinds == {"string", "i64", "f64", "u64", "bool", "null"}

ElementKinds == ScalarKinds \cup {"array", "object"}

\* Option<toml_edit::Item>
None == [some |-> FALSE, k |-> "None", items |-> <<>>]

Some(k, items) == [some |-> TRUE, k |-> k, items |-> items]

\* the loop of the array branch: strings, i64 and f64 numbers and
\* booleans are pushed, anything else clears the flag and ends the loop
RECURSIVE array_loop(_, _, _)
array_loop(arr, i, toml_arr) ==
    IF i > Len(arr)
    THEN [all_same_type |-> TRUE, toml_arr |-> toml_arr]
    ELSE IF arr[i] = "string" THEN array_loop(arr, i + 1, Append(toml_arr, "String"))
    ELSE IF arr[i] = "i64" THEN array_loop(arr, i + 1, Append(toml_arr, "Integer"))
    ELSE IF arr[i] = "f64" THEN array_loop(arr, i + 1, Append(toml_arr, "Float"))
    ELSE IF arr[i] = "bool" THEN array_loop(arr, i + 1, Append(toml_arr, "Boolean"))
    ELSE [all_same_type |-> FALSE, toml_arr |-> toml_arr]

\* the loop of the object branch: string values are inserted, anything
\* else clears the flag and ends the loop
RECURSIVE object_loop(_, _, _)
object_loop(vals, i, inline_table) ==
    IF i > Len(vals)
    THEN [all_strings |-> TRUE, inline_table |-> inline_table]
    ELSE IF vals[i] = "string"
    THEN object_loop(vals, i + 1, Append(inline_table, "String"))
    ELSE [all_strings |-> FALSE, inline_table |-> inline_table]

json_value_to_toml_item(value) ==
    IF value.k = "string" THEN Some("String", <<>>)
    ELSE IF value.k = "i64" THEN Some("Integer", <<>>)
    ELSE IF value.k \in {"f64", "u64"} THEN Some("Float", <<>>)
    ELSE IF value.k = "bool" THEN Some("Boolean", <<>>)
    ELSE IF value.k = "array"
    THEN LET r == array_loop(value.items, 1, <<>>)
         IN  IF r.all_same_type /\ r.toml_arr # <<>>
             THEN Some("Array", r.toml_arr)
             ELSE None
    ELSE IF value.k = "object"
    THEN LET r == object_loop(value.items, 1, <<>>)
         IN  IF r.all_strings /\ r.inline_table # <<>>
             THEN Some("InlineTable", r.inline_table)
             ELSE None
    ELSE None

\* the values the converter is applied to
KindSeqs == UNION {[1..n -> ElementKinds] : n \in 0..MaxArrayLen}

JsonValues ==
    {JsonValue(k, <<>>) : k \in ScalarKinds}
    \cup {JsonValue(k, items) : k \in {"array", "object"}, items \in KindSeqs}

ConvIdle == [input |-> JsonValue("null", <<>>), output |-> None, done |-> FALSE]

\* json_value_to_toml_item(value, field_name)
JsonValueToTomlItem ==
    /\ ~conv.done
    /\ conv' = [conv EXCEPT !.output = json_value_to_toml_item(conv.input),
                            !.done = TRUE]
    /\ UNCHANGED <<mcpVars, dbVars, bkVars, wr, drv, call, thr>>

(***************************************************************************)
(* Fields of a server entry on their way through json_server_to_toml_table *)
(* (mcp/toml_convert.rs) and import_from_codex (mcp/sync/codex.rs)         *)
(***************************************************************************)
\* iter().filter_map(|x| x.as_str()): the string elements, in order
RECURSIVE filter_strings(_, _, _)
filter_strings(items, str, out) ==
    IF items = <<>> THEN <<>>
    ELSE IF Head(items) = str
    THEN <<out>> \o filter_strings(Tail(items), str, out)
    ELSE filter_strings(Tail(items), str, out)

\* JSON kind of a simple TOML element; Absent for the kinds the importer drops
json_of_toml(k) ==
    IF k = "String" THEN "string"
    ELSE IF k = "Integer" THEN "i64"
    ELSE IF k = "Float" THEN "f64"
    ELSE IF k = "Boolean" THEN "bool"
    ELSE Absent

\* the filter_map of the importer's generic array branch
RECURSIVE filter_simple(_)
filter_simple(items) ==
    IF items = <<>> THEN <<>>
    ELSE IF json_of_toml(Head(items)) # Absent
    THEN <<json_of_toml(Head(items))>> \o filter_simple(Tail(items))
    ELSE filter_simple(Tail(items))

NonEmpty(k, items) == IF items # <<>> THEN Some(k, items) ELSE None

\* what json_server_to_toml_table writes for one key of the spec: core is
\* written by the strongly typed pass, generic by the pass over the
\* remaining keys
export_field(typ, key, value) ==
    LET strs == filter_strings(value.items, "string", "String")
        core ==
            IF typ = "stdio" /\ key = "args" /\ value.k = "array"
            THEN NonEmpty("Array", strs)
            ELSE IF typ = "stdio" /\ key = "env" /\ value.k = "object"
            THEN NonEmpty("Table", strs)
            ELSE IF typ \in {"http", "sse"} /\ key = "headers" /\ value.k = "object"
            THEN NonEmpty("Table", strs)
            ELSE None
        core_fields == IF typ = "stdio" THEN {"type", "command", "args", "env", "cwd"}
                       ELSE {"type", "url", "http_headers"}
        generic == IF key \in core_fields THEN None
                   ELSE json_value_to_toml_item(value)
    IN  [core |-> core, generic |-> generic]

\* what import_from_codex inserts into the spec for one key of the table
import_field(typ, key, value) ==
    LET strs == filter_strings(value.items, "String", "string")
        core ==
            IF typ = "stdio" /\ key = "args" /\ value.k = "Array"
            THEN NonEmpty("array", strs)
            ELSE IF typ = "stdio" /\ key = "env" /\ value.k = "Table"
            THEN NonEmpty("object", strs)
            ELSE IF typ \in {"http", "sse"} /\ key \in {"http_headers", "headers"}
                    /\ value.k = "Table"
            THEN NonEmpty("object", strs)
            ELSE None
        core_fields == IF typ = "stdio" THEN {"type", "command", "args", "env", "cwd"}
                       ELSE {"type", "url", "http_headers"}
        generic ==
            IF key \in core_fields THEN None
            ELSE IF json_of_toml(value.k) # Absent THEN Some(json_of_toml(value.k), <<>>)
            ELSE IF value.k = "Array" THEN NonEmpty("array", filter_simple(value.items))
            ELSE IF value.k = "Table" THEN NonEmpty("object", strs)
            ELSE None
    IN  [core |-> core, generic |-> generic]

\* the toml::Value kinds and the values the importer meets
TomlKinds == {"String", "Integer", "Float", "Boolean", "Datetime", "Array", "Table"}

TomlValues ==
    {JsonValue(k, <<>>) : k \in {"String", "Integer", "Float", "Boolean", "Datetime"}}
    \cup {JsonValue(k, items) : k \in {"Array", "Table"},
             items \in UNION {[1..n -> TomlKinds] : n \in 0..MaxArrayLen}}

FieldKeys == {"args", "env", "headers", "http_headers", "timeout"}

FieldTypes == {"stdio", "http"}

FieldCall(dir, typ, key, value) ==
    [dir |-> dir, typ |-> typ, key |-> key, input |-> value,
     core |-> None, generic |-> None, done |-> FALSE]

\* json_server_to_toml_table on the field conv holds
ExportField ==
    /\ conv.dir = "export"
    /\ ~conv.done
    /\ LET r == export_field(conv.typ, conv.key, conv.input)
       IN  conv' = [conv EXCEPT !.core = r.core, !.generic = r.generic, !.done = TRUE]
    /\ UNCHANGED <<mcpVars, dbVars, bkVars, wr, drv, call, thr>>

\* import_from_codex on the field conv holds
ImportField ==
    /\ conv.dir = "import"
    /\ ~conv.done
    /\ LET r == import_field(conv.typ, conv.key, conv.input)
       IN  conv' = [conv EXCEPT !.core = r.core, !.generic = r.generic, !.done = TRUE]
    /\ UNCHANGED <<mcpVars, dbVars, bkVars, wr, drv, call, thr>>

(***************************************************************************)
(* database/mod.rs: lock_conn, snapshot_to_memory; database/backup.rs:     *)
(* export_sql, import_sql; database/dao: operations on the shared handle   *)
(***************************************************************************)
Threads == {"t1", "t2"}

MaxCalls == 1       \* operations each thread runs in one behaviour

\* the steps of an operation, in program order; "lock" is lock_conn!,
\* "unlock" the end of the scope that owns the guard
Program(op) ==
    CASE op = "save_mcp_server" -> <<"lock", "stmt", "unlock">>
      [] op = "save_provider" -> <<"lock", "begin", "stmt", "commit", "unlock">>
      [] op = "set_config_snippet" -> <<"lock", "stmt", "unlock">>
      [] op = "export_sql" -> <<"lock", "copy", "unlock", "dump1", "dump2", "write">>
      [] op = "import_sql" -> <<"lock", "copy", "unlock", "exec", "lock", "replace", "unlock">>
      [] OTHER -> <<>>

Ops == {"save_mcp_server", "save_provider", "set_config_snippet", "export_sql", "import_sql"}

Done(op) == Len(Program(op)) + 1

\* the first release at or after position i
RECURSIVE next_unlock(_, _)
next_unlock(op, i) ==
    IF i > Len(Program(op)) THEN Done(op)
    ELSE IF Program(op)[i] = "unlock" THEN i
    ELSE next_unlock(op, i + 1)

\* variant in which an error return keeps the guard
next_pc_leak(op, i, failed, held) ==
    IF ~failed THEN i + 1 ELSE Done(op)

\* where a thread goes after step i: on success to the next step, on an
\* error (the ? operator) out of the function, dropping the guard on the
\* way when one is held
next_pc(op, i, failed, held) ==
    IF ~failed THEN i + 1
    ELSE IF held THEN next_unlock(op, i)
    ELSE Done(op)

\* variant that dumps the live store
dump_source_live(snapshot, store) == store

\* the connection dump_sql reads: the in-memory snapshot
dump_source(snapshot, store) == snapshot

Tables2(p, m) == [providers |-> p, mcp_servers |-> m]

EmptyStore == Tables2(0, 0)

\* the store an import_sql call installs
ImportedStore == Tables2(7, 7)

ThrIdle ==
    [lock |-> "free",
     op |-> [t \in Threads |-> "none"],
     pc |-> [t \in Threads |-> 0],
     err |-> [t \in Threads |-> FALSE],
     calls |-> [t \in Threads |-> 0],
     store |-> EmptyStore,
     tx |-> [t \in Threads |-> EmptyStore],
     snapshot |-> [t \in Threads |-> EmptyStore],
     dump |-> [t \in Threads |-> EmptyStore],
     seen |-> [t \in Threads |-> {}]]

ThrFrame == UNCHANGED <<mcpVars, dbVars, bkVars, wr, drv, conv, call>>

Running(t) == thr.op[t] # "none" /\ thr.pc[t] >= 1 /\ thr.pc[t] < Done(thr.op[t])

StepOf(t) == Program(thr.op[t])[thr.pc[t]]

\* the store as every running export_sql call has seen it
Observe(st, seen) ==
    [t \in Threads |->
        IF thr.op[t] = "export_sql" /\ Running(t) THEN seen[t] \cup {st} ELSE seen[t]]

\* a thread calls an operation of the handle
ThreadCall(t) ==
    /\ thr.op[t] = "none" \/ thr.pc[t] = Done(thr.op[t])
    /\ thr.calls[t] < MaxCalls
    /\ \E op \in Ops :
          thr' = [thr EXCEPT !.op[t] = op, !.pc[t] = 1, !.err[t] = FALSE,
                             !.calls[t] = @ + 1,
                             !.seen[t] = IF op = "export_sql" THEN {thr.store} ELSE {}]
    /\ ThrFrame

\* lock_conn!(self.conn): waits until the mutex is free
Acquire(t) ==
    /\ Running(t)
    /\ StepOf(t) = "lock"
    /\ thr.lock = "free"
    /\ thr' = [thr EXCEPT !.lock = t, !.pc[t] = @ + 1]
    /\ ThrFrame

\* the guard goes out of scope; after an error the function has returned
Release(t) ==
    /\ Running(t)
    /\ StepOf(t) = "unlock"
    /\ thr' = [thr EXCEPT !.lock = IF thr.lock = t THEN "free" ELSE @,
                          !.pc[t] = IF thr.err[t] THEN Done(thr.op[t]) ELSE @ + 1]
    /\ ThrFrame

\* what a successful step does to the thread's locals and to the store
Effect(t, step) ==
    LET op == thr.op[t]
    IN  IF step = "stmt" /\ op = "save_mcp_server"
        THEN [thr EXCEPT !.store.mcp_servers = (@ + 1) % 3]
        ELSE IF step = "stmt" /\ op = "set_config_snippet"
        THEN thr
        ELSE IF step = "begin"
        THEN [thr EXCEPT !.tx[t] = thr.store]
        ELSE IF step = "stmt" /\ op = "save_provider"
        THEN [thr EXCEPT !.tx[t].providers = (@ + 1) % 3]
        ELSE IF step = "commit"
        THEN [thr EXCEPT !.store = thr.tx[t]]
        ELSE IF step = "copy"
        THEN [thr EXCEPT !.snapshot[t] = thr.store]
        ELSE IF step = "dump1"
        THEN [thr EXCEPT !.dump[t] =
                 Tables2(dump_source(thr.snapshot[t], thr.store).providers, 0)]
        ELSE IF step = "dump2"
        THEN [thr EXCEPT !.dump[t].mcp_servers =
                 dump_source(thr.snapshot[t], thr.store).mcp_servers]
        ELSE IF step = "replace"
        THEN [thr EXCEPT !.store = ImportedStore]
        ELSE thr

\* any other step of an operation: it succeeds, or it fails and the
\* function returns the error
Step(t) ==
    /\ Running(t)
    /\ StepOf(t) \notin {"lock", "unlock"}
    /\ \E failed \in BOOLEAN :
          LET after == IF failed THEN thr ELSE Effect(t, StepOf(t))
              pc2 == next_pc(thr.op[t], thr.pc[t], failed, thr.lock = t)
          IN  thr' = [after EXCEPT !.pc[t] = pc2,
                                   !.err[t] = failed,
                                   !.seen = Observe(after.store, after.seen)]
    /\ ThrFrame

(***************************************************************************)
(* database/backup.rs: dump_sql, format_sql_value, sanitize_import_sql and *)
(* the statements as execute_batch reads them.  A text is a sequence of    *)
(* characters; "S" stands for the word sqlite_sequence, "I" for the head   *)
(* of an INSERT statement up to the value, "nl" for a line feed.           *)
(***************************************************************************)
MaxTextLen == 3     \* characters of a text value

CallFrame == UNCHANGED <<mcpVars, dbVars, bkVars, wr, drv, conv, thr>>

TextChars == {"a", ";", "'", " ", "S"}

Texts == UNION {[1..n -> TextChars] : n \in 0..MaxTextLen}

\* text.replace('\'', "''")
RECURSIVE escape_quotes(_)
escape_quotes(text) ==
    IF text = <<>> THEN <<>>
    ELSE IF Head(text) = "'" THEN <<"'", "'">> \o escape_quotes(Tail(text))
    ELSE <<Head(text)>> \o escape_quotes(Tail(text))

\* ValueRef::Text
format_sql_value(text) == <<"'">> \o escape_quotes(text) \o <<"'">>

\* the INSERT statement dump_sql writes for a row with one text column
dump_sql(text) == <<"I">> \o format_sql_value(text) \o <<")", ";", "nl">>

\* sql.split(';')
RECURSIVE split_semicolon(_, _)
split_semicolon(sql, piece) ==
    IF sql = <<>> THEN <<piece>>
    ELSE IF Head(sql) = ";" THEN <<piece>> \o split_semicolon(Tail(sql), <<>>)
    ELSE split_semicolon(Tail(sql), Append(piece, Head(sql)))

IsSpace(ch) == ch \in {" ", "nl"}

RECURSIVE trim_start(_)
trim_start(x) ==
    IF x # <<>> /\ IsSpace(Head(x)) THEN trim_start(Tail(x)) ELSE x

RECURSIVE trim_end(_)
trim_end(x) ==
    IF x # <<>> /\ IsSpace(x[Len(x)]) THEN trim_end(SubSeq(x, 1, Len(x) - 1)) ELSE x

\* str::trim
trim(x) == trim_end(trim_start(x))

\* the loop of sanitize_import_sql over the pieces
RECURSIVE sanitize_pieces(_, _)
sanitize_pieces(pieces, cleaned) ==
    IF pieces = <<>> THEN cleaned
    ELSE LET trimmed == trim(Head(pieces))
         IN  IF trimmed = <<>>
             THEN sanitize_pieces(Tail(pieces), cleaned)
             ELSE IF \E i \in 1..Len(trimmed) : trimmed[i] = "S"
             THEN sanitize_pieces(Tail(pieces), cleaned)
             ELSE sanitize_pieces(Tail(pieces), cleaned \o trimmed \o <<";", "nl">>)

sanitize_import_sql(sql) == sanitize_pieces(split_semicolon(sql, <<>>), <<>>)

\* result of reading statements: ok and the text values inserted
Batch(ok, rows) == [ok |-> ok, rows |-> rows]

\* a string literal from position i on: up to the closing quote, a doubled
\* quote standing for one quote; at is 0 when the literal does not end
RECURSIVE read_literal(_, _, _)
read_literal(sql, i, text) ==
    IF i > Len(sql) THEN [at |-> 0, text |-> text]
    ELSE IF sql[i] = "'"
    THEN IF i < Len(sql) /\ sql[i + 1] = "'"
         THEN read_literal(sql, i + 2, Append(text, "'"))
         ELSE [at |-> i + 1, text |-> text]
    ELSE read_literal(sql, i + 1, Append(text, sql[i]))

\* execute_batch on the cleaned text: INSERT statements one after the other
RECURSIVE execute_batch(_, _, _)
execute_batch(sql, i, rows) ==
    IF i > Len(sql) THEN Batch(TRUE, rows)
    ELSE IF IsSpace(sql[i]) THEN execute_batch(sql, i + 1, rows)
    ELSE IF sql[i] = "I" /\ i < Len(sql) /\ sql[i + 1] = "'"
    THEN LET lit == read_literal(sql, i + 2, <<>>)
         IN  IF lit.at = 0 \/ lit.at + 1 > Len(sql)
             THEN Batch(FALSE, rows)
             ELSE IF sql[lit.at] = ")" /\ sql[lit.at + 1] = ";"
             THEN execute_batch(sql, lit.at + 2, Append(rows, lit.text))
             ELSE Batch(FALSE, rows)
    ELSE Batch(FALSE, rows)

RoundTripIdle(text) ==
    [fn |-> "round_trip", input |-> text, sql |-> <<>>, output |-> Batch(FALSE, <<>>),
     pc |-> "export", done |-> FALSE]

\* export_sql: dump_sql writes the row
ExportSql ==
    /\ call.fn = "round_trip"
    /\ call.pc = "export"
    /\ call' = [call EXCEPT !.sql = dump_sql(call.input), !.pc = "sanitize"]
    /\ CallFrame

\* import_sql: read_to_string and sanitize_import_sql
SanitizeImportSql ==
    /\ call.fn = "round_trip"
    /\ call.pc = "sanitize"
    /\ call' = [call EXCEPT !.sql = sanitize_import_sql(call.sql), !.pc = "exec"]
    /\ CallFrame

\* import_sql: temp_conn.execute_batch(&sql_content)
ExecuteBatch ==
    /\ call.fn = "round_trip"
    /\ call.pc = "exec"
    /\ call' = [call EXCEPT !.output = execute_batch(call.sql, 1, <<>>),
                            !.pc = "done", !.done = TRUE]
    /\ CallFrame

(***************************************************************************)
(* Calls of the pure functions of mcp/validation.rs and mcp/helpers.rs     *)
(***************************************************************************)
\* the values validate_server_spec is applied to
SpecTypes == {Absent, NonStr, "stdio", "http", "sse", "ws"}

SpecStrings == {Absent, NonStr, "", " ", "echo"}

ServerSpecs ==
    {Obj(t, c, u, Absent) : t \in SpecTypes, c \in SpecStrings, u \in SpecStrings}
    \cup {NotObj}

\* validate_server_spec(spec)
ValidateServerSpec ==
    /\ call.fn = "validate_server_spec"
    /\ ~call.done
    /\ call' = [call EXCEPT !.output = validate_server_spec(call.input), !.done = TRUE]
    /\ CallFrame

(***************************************************************************)
(* Specifications                                                          *)
(***************************************************************************)
McpIdle ==
    /\ config = [some |-> TRUE, servers |-> EmptyServers, legacy |-> EmptyLegacy]
    /\ live = [x \in Clients |-> AbsentFile]
    /\ last = NoOp(config, live)
    /\ prevOp = last
    /\ steps = 0

DbIdle == db = FreshStore /\ mig = NoMig

BackupIdle == fs = NoFs /\ imp = IdleImport

CallIdle == [fn |-> "none", input |-> NotObj, output |-> FALSE, done |-> FALSE]

AuxIdle ==
    wr = WrIdle /\ drv = DrvIdle /\ conv = ConvIdle /\ call = CallIdle /\ thr = ThrIdle

\* importers run on any store and any live file
InitImport ==
    /\ \E st \in Stores :
          config = [some |-> TRUE, servers |-> st, legacy |-> EmptyLegacy]
    /\ \E c \in Clients : \E f \in FilesOf(c) :
          live = [x \in Clients |-> IF x = c THEN f ELSE AbsentFile]
    /\ last = NoOp(config, live)
    /\ prevOp = last
    /\ steps = 0
    /\ DbIdle
    /\ BackupIdle
    /\ AuxIdle

NextImport == ImportFromClaude \/ ImportFromCodex \/ ImportFromGemini

SpecImport == InitImport /\ [][NextImport]_vars

\* exporters run on any per-client config, then importers on what they wrote
InitExport ==
    /\ \E c \in Clients : \E st \in ExportStores : \E lg \in LegacyMaps :
       \E f \in ExportFiles(c) :
          /\ config = [some |-> TRUE, servers |-> st,
                       legacy |-> [x \in Clients |->
                                     IF x = c THEN lg ELSE EmptyLegacy[x]]]
          /\ live = [x \in Clients |-> IF x = c THEN f ELSE AbsentFile]
    /\ last = NoOp(config, live)
    /\ prevOp = last
    /\ steps = 0
    /\ DbIdle
    /\ BackupIdle
    /\ AuxIdle

NextExport ==
    \/ SyncEnabledToClaude
    \/ SyncEnabledToCodex
    \/ SyncEnabledToGemini
    \/ ImportFromClaude
    \/ ImportFromCodex
    \/ ImportFromGemini

SpecExport == InitExport /\ [][NextExport]_vars

\* Database::init on any store found on disk
InitDb ==
    /\ McpIdle
    /\ db \in StoresOnDisk
    /\ mig = NoMig
    /\ BackupIdle
    /\ AuxIdle

NextDb == OpenDatabase \/ ApplyMigrations

SpecDb == InitDb /\ [][NextDb]_vars

\* backups, store writes and import_sql on a store created by this release
InitBackup ==
    /\ McpIdle
    /\ DbIdle
    /\ \E e \in BOOLEAN : fs = [NoFs EXCEPT !.dbFileExists = e]
    /\ imp = IdleImport
    /\ AuxIdle

NextBackup ==
    \/ CreateBackup
    \/ SaveMcpServer
    \/ ImportBegin
    \/ ImportBackup
    \/ ImportExec
    \/ ImportCreateTables
    \/ ImportMigrate
    \/ ImportValidate
    \/ ImportCopy
    \/ ImportReturn

SpecBackup == InitBackup /\ [][NextBackup]_vars

\* import_sql with another thread saving servers while it runs
NextImportRace == NextBackup \/ SaveMcpServerDuringImport

SpecImportRace == InitBackup /\ [][NextImportRace]_vars

\* file writes on either kind of platform, with failures and crashes
InitWrite ==
    /\ McpIdle
    /\ DbIdle
    /\ BackupIdle
    /\ \E w \in BOOLEAN : \E t \in {Missing, Bytes(0, "full")} :
          wr = [WrIdle EXCEPT !.windows = w, !.target = t]
    /\ drv = DrvIdle
    /\ conv = ConvIdle
    /\ call = CallIdle
    /\ thr = ThrIdle

NextWrite ==
    \/ WriteBegin
    \/ AwCreateDir
    \/ AwCreateTmp
    \/ AwWriteAll
    \/ AwFlush
    \/ AwPermissions
    \/ AwRemoveExisting
    \/ AwRename
    \/ DirectCreate
    \/ DirectWriteAll
    \/ WriteCrash
    \/ WriteReturn

SpecWrite == InitWrite /\ [][NextWrite]_vars

\* toggles on any unified store and any per-client map
InitToggle ==
    /\ \E st \in ToggleStores : \E c \in Clients : \E mp \in IdMaps :
          config = [some |-> TRUE, servers |-> st,
                    legacy |-> [x \in Clients |-> IF x = c THEN mp ELSE EmptyLegacy[x]]]
    /\ live = [x \in Clients |-> AbsentFile]
    /\ last = NoOp(config, live)
    /\ prevOp = last
    /\ steps = 0
    /\ DbIdle
    /\ BackupIdle
    /\ AuxIdle

NextToggle == SetEnabledFlagFor \/ ToggleApp

SpecToggle == InitToggle /\ [][NextToggle]_vars

\* normalize_servers_for on any map of one client; the maps of the other
\* clients are empty
InitNormalize ==
    /\ \E mp \in NormalizeMaps :
          config = [some |-> TRUE, servers |-> EmptyServers,
                    legacy |-> [x \in Clients |-> IF x = "codex" THEN mp ELSE EmptyLegacy[x]]]
    /\ live = [x \in Clients |-> AbsentFile]
    /\ last = NoOp(config, live)
    /\ prevOp = last
    /\ steps = 0
    /\ DbIdle
    /\ BackupIdle
    /\ AuxIdle

NextNormalize == NormalizeServersFor

SpecNormalize == InitNormalize /\ [][NextNormalize]_vars

\* a row with one text value, exported and imported again
InitRoundTrip ==
    /\ McpIdle
    /\ DbIdle
    /\ BackupIdle
    /\ wr = WrIdle
    /\ drv = DrvIdle
    /\ conv = ConvIdle
    /\ thr = ThrIdle
    /\ \E text \in Texts : call = RoundTripIdle(text)

NextRoundTrip == ExportSql \/ SanitizeImportSql \/ ExecuteBatch

SpecRoundTrip == InitRoundTrip /\ [][NextRoundTrip]_vars

\* threads calling operations of the one store handle
InitThreads ==
    /\ McpIdle
    /\ DbIdle
    /\ BackupIdle
    /\ wr = WrIdle
    /\ drv = DrvIdle
    /\ conv = ConvIdle
    /\ call = CallIdle
    /\ \E p \in 0..1 : \E m \in 0..1 : thr = [ThrIdle EXCEPT !.store = Tables2(p, m)]

NextThreads ==
    \E t \in Threads : ThreadCall(t) \/ Acquire(t) \/ Release(t) \/ Step(t)

SpecThreads == InitThreads /\ [][NextThreads]_vars

\* a v3.6 configuration, migrated in memory and fed by the importers
InitMigrate ==
    /\ \E lg \in [Clients -> MigrateMaps] :
          config = [some |-> FALSE, servers |-> EmptyServers, legacy |-> lg]
    /\ \E lv \in [Clients -> MigrateFiles] : live = lv
    /\ last = NoOp(config, live)
    /\ prevOp = last
    /\ steps = 0
    /\ DbIdle
    /\ BackupIdle
    /\ AuxIdle

NextMigrate ==
    \/ MigrateMcpToUnified
    \/ ImportFromClaude
    \/ ImportFromCodex
    \/ ImportFromGemini

SpecMigrate == InitMigrate /\ [][NextMigrate]_vars

\* one field of a server entry, exported to TOML or imported from it
InitFields ==
    /\ McpIdle
    /\ DbIdle
    /\ BackupIdle
    /\ wr = WrIdle
    /\ drv = DrvIdle
    /\ call = CallIdle
    /\ thr = ThrIdle
    /\ \E typ \in FieldTypes : \E key \in FieldKeys :
          \/ \E v \in JsonValues : conv = FieldCall("export", typ, key, v)
          \/ \E v \in TomlValues : conv = FieldCall("import", typ, key, v)

NextFields == ExportField \/ ImportField

SpecFields == InitFields /\ [][NextFields]_vars

\* the validator on any value
InitValidate ==
    /\ McpIdle
    /\ DbIdle
    /\ BackupIdle
    /\ wr = WrIdle
    /\ drv = DrvIdle
    /\ conv = ConvIdle
    /\ \E v \in ServerSpecs :
          call = [fn |-> "validate_server_spec", input |-> v, output |-> FALSE,
                  done |-> FALSE]
    /\ thr = ThrIdle

NextValidate == ValidateServerSpec

SpecValidate == InitValidate /\ [][NextValidate]_vars

\* the converter on any value
InitConvert ==
    /\ McpIdle
    /\ DbIdle
    /\ BackupIdle
    /\ wr = WrIdle
    /\ drv = DrvIdle
    /\ \E v \in JsonValues : conv = [input |-> v, output |-> None, done |-> FALSE]
    /\ call = CallIdle
    /\ thr = ThrIdle

NextConvert == JsonValueToTomlItem

SpecConvert == InitConvert /\ [][NextConvert]_vars

\* the sync-all driver on any mix of writable and unparsable live files
InitSyncAll ==
    /\ \E lg \in [Clients -> UNION {DriverLegacy(c) : c \in Clients}] :
          /\ \A c \in Clients : lg[c] \in DriverLegacy(c)
          /\ config = [some |-> TRUE, servers |-> EmptyServers, legacy |-> lg]
    /\ \E lv \in [Clients -> UNION {ExportFiles(c) : c \in Clients}] :
          /\ \A c \in Clients : lv[c] \in ExportFiles(c)
          /\ live = lv
    /\ last = NoOp(config, live)
    /\ prevOp = last
    /\ steps = 0
    /\ DbIdle
    /\ BackupIdle
    /\ AuxIdle

NextSyncAll == SyncAllBegin \/ SyncAllStep \/ SyncAllReturn

SpecSyncAll == InitSyncAll /\ [][NextSyncAll]_vars

(***************************************************************************)
(* Properties of the importers and exporters                               *)
(***************************************************************************)
ServersIn(file) == IF file.state = "ok" /\ file.mcp = "obj" THEN file.servers ELSE EmptyMap
LegacyServersIn(file) ==
    IF file.state = "ok" /\ file.legacy = "obj" THEN file.legacyServers ELSE EmptyMap

\* transport type of a spec, stdio when the discriminant is absent
EffectiveType(spec) == IF AsStr(spec.type) = Absent THEN "stdio" ELSE spec.type

RequiredField(spec) ==
    IF EffectiveType(spec) = "stdio" THEN spec.command ELSE spec.url

\* C1: an import leaves every server that was in the store with the same
\* name, spec, description, homepage, docs, tags and the same flags of the
\* other two clients; the importing client's flag may only go from false
\* to true.
C1_ImportMergeSafe ==
    last.op = "import" =>
        \A id \in DOMAIN last.preConfig.servers :
            /\ id \in DOMAIN config.servers
            /\ LET old == last.preConfig.servers[id]
                   new == config.servers[id]
               IN  /\ new.id = old.id
                   /\ new.name = old.name
                   /\ new.server = old.server
                   /\ new.description = old.description
                   /\ new.homepage = old.homepage
                   /\ new.docs = old.docs
                   /\ new.tags = old.tags
                   /\ \A x \in Clients \ {last.client} : new.apps[x] = old.apps[x]
                   /\ old.apps[last.client] => new.apps[last.client]

\* an import enabled its client on an existing server whose stored spec
\* and name differ from what the live file says
C1_Witness ==
    /\ last.op = "import"
    /\ \E id \in DOMAIN last.preConfig.servers :
          /\ ~last.preConfig.servers[id].apps[last.client]
          /\ config.servers[id].apps[last.client]
          /\ last.preConfig.servers[id].name # id
          /\ \/ /\ id \in DOMAIN ServersIn(live[last.client])
                /\ ServersIn(live[last.client])[id] # last.preConfig.servers[id].server
             \/ id \in DOMAIN LegacyServersIn(live[last.client])

\* C2: exporting a set of valid enabled servers to a client's live file and
\* importing that file into an empty store gives back the same ids, each
\* enabled for the client, with transport type and required field unchanged.
C2_RoundTrip ==
    LET c == last.client
        exported == collect_enabled_servers(prevOp.preConfig.legacy[c])
    IN  ( /\ last.op = "import"
          /\ prevOp.op = "export"
          /\ prevOp.client = c
          /\ prevOp.ok
          /\ last.preConfig.servers = EmptyServers
          /\ \A id \in DOMAIN exported : validate_server_spec(exported[id]) )
        => /\ last.ok
           /\ DOMAIN config.servers = DOMAIN exported
           /\ \A id \in DOMAIN exported :
                 /\ id \in DOMAIN config.servers
                 /\ config.servers[id].apps[c]
                 /\ EffectiveType(config.servers[id].server) = EffectiveType(exported[id])
                 /\ RequiredField(config.servers[id].server) = RequiredField(exported[id])

\* C3: after a successful export for client X the ids in X's live server
\* section are exactly the servers of the canonical store whose flag for X
\* is true.
C3_ExportMatchesFlags ==
    (last.op = "export" /\ last.ok) =>
        DOMAIN ServersIn(live[last.client]) =
            {id \in DOMAIN config.servers : config.servers[id].apps[last.client]}

\* entries of a live file that pass validation
CodexEntryValid(e) ==
    /\ e.isObj
    /\ codex_typ(e) \in {"stdio", "http", "sse"}
    /\ validate_server_spec(codex_entry_to_spec(e))

ValidLiveIds(file, c) ==
    IF c = "codex"
    THEN {id \in DOMAIN ServersIn(file) : CodexEntryValid(ServersIn(file)[id])}
         \cup {id \in DOMAIN LegacyServersIn(file) :
                  CodexEntryValid(LegacyServersIn(file)[id])}
    ELSE {id \in DOMAIN ServersIn(file) : validate_server_spec(ServersIn(file)[id])}

\* C4: an invalid entry of the live file is skipped without affecting the
\* others: after an import every valid entry of the live file is in the
\* store and enabled for the importing client.
C4_ValidEntriesApplied ==
    (last.op = "import" /\ last.ok) =>
        \A id \in ValidLiveIds(last.preLive[last.client], last.client) :
            /\ id \in DOMAIN config.servers
            /\ config.servers[id].apps[last.client]

(***************************************************************************)
(* Properties of the schema migration                                      *)
(***************************************************************************)
\* C5: when a step of the migration fails the migration returns the error
\* and the store is as it was before the migration began: no column added
\* by an earlier step remains and the stored version is unchanged.
C5_FailedMigrationRollsBack ==
    /\ (mig.op = "migrate" /\ ~mig.ok) => db = mig.pre
    /\ (mig.op = "init" /\ ~mig.ok) => db = create_tables_on_conn(mig.pre)
    /\ (mig.op # "none" /\ mig.partial # db) => (~mig.ok /\ mig.err = "step")

\* a step failed after earlier steps of the same migration had added columns
C5_Witness ==
    /\ mig.op = "migrate"
    /\ mig.err = "step"
    /\ mig.partial # mig.pre
    /\ db = mig.pre

\* C6: when the stored version is greater than SCHEMA_VERSION, opening the
\* store fails and leaves tables, columns, rows and version as they were.
C6_FutureVersionUntouched ==
    (mig.op = "init" /\ mig.pre.version > SCHEMA_VERSION) =>
        (~mig.ok /\ db = mig.pre)

\* C7: for a stored version below SCHEMA_VERSION, opening the store
\* succeeds, the stored version becomes SCHEMA_VERSION and every column of
\* the current schema is present in every table.
C7_MigrationCompletesSchema ==
    ( /\ mig.op = "init"
      /\ mig.pre.version >= 0
      /\ mig.pre.version < SCHEMA_VERSION
      /\ mig.err # "step" )
    => /\ mig.ok
       /\ db.version = SCHEMA_VERSION
       /\ \A t \in Tables :
             /\ t \in DOMAIN db.tables
             /\ CurrentColumns[t] \subseteq db.tables[t]

(***************************************************************************)
(* Properties of backup and import_sql                                     *)
(***************************************************************************)
ScratchSteps == {"backup", "exec", "tables", "migrate", "validate"}

\* C8: import_sql overwrites the live store only after the backup step and
\* after statements, table creation, migration and sanity check succeeded
\* on the scratch store; before that the live store is what it was when
\* the call began, so the incoming statements never run against it.
C8_LiveOverwrittenLast ==
    /\ imp.liveWritten =>
          /\ ScratchSteps \subseteq imp.done
          /\ db = imp.scratch
          /\ validate_basic_state(imp.scratch)
          /\ imp.scratch.version = SCHEMA_VERSION
          /\ fs.dbFileExists =>
                /\ imp.backupPath \in DOMAIN fs.backups
                /\ fs.backups[imp.backupPath].content = imp.pre
    /\ (imp.pc # "idle" /\ ~imp.liveWritten) => db = imp.pre

\* an import went through and replaced the live store by a different one
C8_Witness ==
    /\ imp.pc = "done"
    /\ imp.result = "ok"
    /\ imp.liveWritten
    /\ db # imp.pre
    /\ imp.backupPath # NoPath

\* C9: when import_sql rejects a file whose providers and mcp_servers
\* tables are both empty, the live store is what it was before the call
\* and the backup taken during the call is still in the backup directory.
C9_RejectedImportKeepsLive ==
    imp.result = "err_validate" =>
        /\ imp.pc = "done"
        /\ db = imp.pre
        /\ fs.dbFileExists =>
              /\ imp.backupPath # NoPath
              /\ imp.backupPath \in DOMAIN fs.backups
              /\ fs.backups[imp.backupPath].content = imp.pre

\* an import of a dump with both tables empty was rejected after its backup
C9_Witness ==
    /\ imp.result = "err_validate"
    /\ imp.src.kind = "sql"
    /\ imp.src.image.rows["providers"] = 0
    /\ imp.src.image.rows["mcp_servers"] = 0
    /\ imp.backupPath \in DOMAIN fs.backups

C13_ImportIdempotent ==
    ( /\ last.op = "import"
      /\ prevOp.op = "import"
      /\ prevOp.client = last.client
      /\ prevOp.ok
      /\ last.preLive = prevOp.preLive )
    => /\ last.ok
       /\ last.changed = 0
       /\ config = last.preConfig

\* the first run imported or enabled something from a file that also holds
\* an entry it did not apply, and the second run reported 0
C13_Witness ==
    /\ last.op = "import"
    /\ prevOp.op = "import"
    /\ prevOp.client = last.client
    /\ prevOp.changed > 0
    /\ last.changed = 0
    /\ \E id \in DOMAIN ServersIn(live[last.client]) : id \notin DOMAIN config.servers

\* C14: when the client's live file exists and is not syntactically valid,
\* the importer returns an error and the store holds exactly the servers
\* and flags it held before the call.
C14_InvalidLiveFileIsError ==
    (last.op = "import" /\ last.preLive[last.client].state = "invalid") =>
        /\ ~last.ok
        /\ config = last.preConfig

\* an importer failed on an unparsable live file while the store held servers
C14_Witness ==
    /\ last.op = "import"
    /\ last.preLive[last.client].state = "invalid"
    /\ ~last.ok
    /\ last.preConfig.servers # EmptyServers
    /\ config.servers = last.preConfig.servers

(***************************************************************************)
(* Further properties of the exporters                                     *)
(***************************************************************************)
\* C15: after a successful export for a client, what the client's live
\* file holds outside its server section (and, for Codex, outside the
\* legacy mcp.servers table) is what it held before, and the other
\* clients' live files are untouched.
C15_ExportPreservesOtherKeys ==
    (last.op = "export" /\ last.ok) =>
        /\ live[last.client].other = last.preLive[last.client].other
        /\ \A x \in Clients \ {last.client} : live[x] = last.preLive[x]

\* an export replaced the server section of a file that holds other keys
C15_Witness ==
    /\ last.op = "export"
    /\ last.ok
    /\ last.preLive[last.client].other # ""
    /\ live[last.client].other = last.preLive[last.client].other
    /\ ServersIn(live[last.client]) # ServersIn(last.preLive[last.client])
    /\ ServersIn(live[last.client]) # EmptyMap

\* C16: when the Codex live file holds servers under the legacy
\* [mcp.servers] table, after a successful export the file holds each of
\* them under [mcp_servers] and holds no [mcp.servers] table.
C16_LegacyTableMigrated ==
    ( /\ last.op = "export"
      /\ last.client = "codex"
      /\ last.ok
      /\ last.preLive["codex"].legacy = "obj" )
    => /\ live["codex"].legacy = "absent"
       /\ \A x \in DOMAIN last.preLive["codex"].legacyServers :
             x \in DOMAIN ServersIn(live["codex"])

\* C18: a toggle for an id that is not in the store reports existed =
\* false and leaves the store exactly as it was; a toggle for an id that
\* is in the store reports existed = true and changes only that client's
\* flag of that server.
C18_ToggleChangesOneFlag ==
    /\ (last.op = "toggle_app" /\ last.ok) =>
          IF last.id \in DOMAIN last.preConfig.servers
          THEN /\ last.existed
               /\ config = [last.preConfig EXCEPT
                               !.servers[last.id].apps[last.client] = last.enabled]
          ELSE ~last.existed /\ config = last.preConfig
    /\ (last.op = "set_enabled_flag_for" /\ last.ok) =>
          IF last.id \in DOMAIN last.preConfig.legacy[last.client]
          THEN /\ last.existed
               /\ config = [last.preConfig EXCEPT
                               !.legacy[last.client][last.id].enabled =
                                   IF last.enabled THEN "true" ELSE "false"]
          ELSE ~last.existed /\ config = last.preConfig

\* C19: in a live file written by an exporter no server entry holds the
\* transport discriminant (type); the entry record of the model carries
\* none of the bookkeeping fields, so the discriminant stands for the
\* stripped fields.
C19_NoDiscriminantInLiveFile ==
    (last.op = "export" /\ last.ok) =>
        \A id \in DOMAIN live[last.client].servers :
            live[last.client].servers[id].isObj =>
                live[last.client].servers[id].type = Absent

\* the clients in the order the driver visits them
DriverOrder == <<"claude", "codex", "gemini">>

C11_AtomicWriteAllOrNothing ==
    (wr.pc # "idle" /\ wr.writer = "atomic" /\ ~wr.windows) =>
        /\ wr.target \in {wr.pre, Bytes(wr.count, "full")}
        /\ ~wr.renamed => wr.target = wr.pre
        /\ wr.renamed => wr.target = Bytes(wr.count, "full")

\* the process stopped while the temp file was partly written and the
\* target, which existed, still holds its complete original content
C11_Witness ==
    /\ wr.writer = "atomic"
    /\ ~wr.windows
    /\ wr.result = "crashed"
    /\ wr.tmp.len = "part"
    /\ wr.pre.len = "full"
    /\ wr.target = wr.pre

\* C12: every operation that writes a client's live file goes through the
\* atomic writer, and the live file is never truncated or partly written.
C12_LiveWritesAtomic ==
    (wr.pc # "idle" /\ wr.client \in Clients) =>
        /\ wr.writer = "atomic"
        /\ wr.target.len \in {"full", "missing"}


(***************************************************************************)
(* Properties of the JSON to TOML converter                                *)
(***************************************************************************)
\* the TOML kind a simple JSON element converts to
TomlKindOf(k) ==
    IF k = "string" THEN "String"
    ELSE IF k = "i64" THEN "Integer"
    ELSE IF k = "f64" THEN "Float"
    ELSE "Boolean"

SimpleKinds == {"string", "i64", "f64", "bool"}

\* every element is simple and all elements are of one kind
UniformSimple(items) ==
    /\ \A i \in 1..Len(items) : items[i] \in SimpleKinds
    /\ \A i, j \in 1..Len(items) : items[i] = items[j]

\* C20: for an array the converter returns an array only when every
\* element is a string, integer, float or boolean and all are of one kind,
\* and then the array holds every element; for any other array it returns
\* nothing.
C20_ArrayAllOrNothing ==
    (conv.done /\ conv.input.k = "array") =>
        /\ conv.output.some =>
              /\ UniformSimple(conv.input.items)
              /\ conv.output.k = "Array"
              /\ Len(conv.output.items) = Len(conv.input.items)
              /\ \A i \in 1..Len(conv.input.items) :
                    conv.output.items[i] = TomlKindOf(conv.input.items[i])
        /\ ~UniformSimple(conv.input.items) => ~conv.output.some


\* a stdio server has a non-empty command, an http or sse server a
\* non-empty url
ValidStoredSpec(spec) ==
    /\ spec.isObj
    /\ \/ spec.type \in {Absent, "stdio"} /\ AsStr(spec.command) \notin {Absent, ""}
       \/ spec.type \in {"http", "sse"} /\ AsStr(spec.url) \notin {Absent, ""}

\* C23: after the migration to the unified structure and after any
\* imports every server of the store has a valid spec.
C23_StoredSpecsValid ==
    \A id \in DOMAIN config.servers : ValidStoredSpec(config.servers[id].server)

\* a written value holds as many elements or keys as the value it was
\* made from
Complete(out, value) == out.some => Len(out.items) = Len(value.items)

\* C22: whatever the Codex exporter writes for a field, and whatever the
\* Codex importer inserts for a field, holds every element or key of the
\* source field.
C22_FieldsWholeOrOmitted ==
    conv.done => Complete(conv.core, conv.input) /\ Complete(conv.generic, conv.input)

(***************************************************************************)
(* Properties of the validator and of the key normaliser                   *)
(***************************************************************************)
\* a string with a character other than white space
NonBlankString(v) == AsStr(v) # Absent /\ ~IsBlank(v)

\* C21: validate_server_spec accepts a value exactly when it is an object
\* that has no type or type "stdio" and a non-blank string command, or has
\* type "http" or "sse" and a non-blank string url.
C21_ValidateExactlyThreeTypes ==
    (call.fn = "validate_server_spec" /\ call.done) =>
        (call.output <=>
            /\ call.input.isObj
            /\ \/ call.input.type \in {Absent, "stdio"} /\ NonBlankString(call.input.command)
               \/ call.input.type \in {"http", "sse"} /\ NonBlankString(call.input.url))

(***************************************************************************)
(* Properties of the operations on the shared store handle                 *)
(***************************************************************************)
\* the steps export_sql takes after snapshot_to_memory has returned
Dumping(t) ==
    thr.op[t] = "export_sql" /\ Running(t) /\ StepOf(t) \in {"dump1", "dump2", "write"}

\* export_sql has returned Ok
Exported(t) ==
    thr.op[t] = "export_sql" /\ thr.pc[t] = Done("export_sql") /\ ~thr.err[t]

\* C24: export_sql does not hold the lock while it produces the dump, and
\* the dump equals the store as it was at one instant during the call.
C24_ExportFromSnapshot ==
    \A t \in Threads :
        /\ Dumping(t) => thr.lock # t
        /\ Exported(t) => thr.dump[t] \in thr.seen[t]

\* an export returned a dump of a store that was changed while the dump
\* was being produced
C24_Witness ==
    \E t \in Threads :
        /\ Exported(t)
        /\ thr.dump[t] # thr.store
        /\ Cardinality(thr.seen[t]) > 1
        /\ thr.dump[t] \in thr.seen[t]

\* a thread that is not inside an operation
Outside(t) == thr.op[t] = "none" \/ thr.pc[t] = Done(thr.op[t])

\* a thread that can take its next step
CanStep(t) == Running(t) /\ (StepOf(t) = "lock" => thr.lock = "free")

\* C25: an operation that has returned does not hold the lock, on
\* success or on error; no thread waits for the lock while it holds it;
\* and while some operation is unfinished some thread can take a step.
C25_LockReleasedNoDeadlock ==
    /\ \A t \in Threads : Outside(t) => thr.lock # t
    /\ \A t \in Threads : (Running(t) /\ StepOf(t) = "lock") => thr.lock # t
    /\ (\E t \in Threads : Running(t)) => \E t \in Threads : CanStep(t)

\* one operation returned an error from inside its critical section and
\* another one then took the lock and finished
C25_Witness ==
    \E t, u \in Threads :
        /\ t # u
        /\ thr.pc[t] = Done(thr.op[t]) /\ thr.op[t] = "save_provider" /\ thr.err[t]
        /\ thr.pc[u] = Done(thr.op[u]) /\ thr.op[u] = "import_sql" /\ ~thr.err[u]
        /\ thr.lock = "free"

\* the rows of store d are all in store b
RowsWithin(d, b) == \A t \in DOMAIN d.rows : d.rows[t] <= b.rows[t]

\* C27: when import_sql replaces the live store, every row committed to
\* the live store up to that moment is in the backup the call took.
C27_CommittedWritesInBackup ==
    [][(imp.pc = "copy" /\ imp'.liveWritten /\ imp.backupPath # NoPath) =>
          /\ imp.backupPath \in DOMAIN fs.backups
          /\ RowsWithin(db, fs.backups[imp.backupPath].content)]_vars

\* C29: a backup_database_file call that returns a path has created a
\* file that was not there before and has left every earlier backup file
\* that is still there with the content it had.
C29_BackupIsNewFile ==
    [][(fs' # fs /\ fs'.created # NoPath) =>
          /\ fs'.created \notin DOMAIN fs.backups
          /\ \A n \in (DOMAIN fs.backups) \cap (DOMAIN fs'.backups) :
                fs'.backups[n] = fs.backups[n]]_vars

\* C30: an import_sql call that ended in an error after its backup step
\* has deleted no backup file.
C30_FailedImportKeepsBackups ==
    (imp.pc = "done" /\ imp.result \notin {"ok", "none"} /\ "backup" \in imp.done
        /\ imp.backupPath # NoPath)
        => fs.deleted = {}

\* C26: after normalize_server_keys every entry that is a JSON object carries
\* its own map key as embedded id, and the map holds as many entries as
\* before the call, also when an embedded id names the key of another entry.
Normalized(mp) == \A k \in DOMAIN mp : mp[k].isObj => mp[k].id = k

C26_NormalizeKeepsEntries ==
    last.op = "normalize_servers_for" =>
        /\ Normalized(config.legacy[last.client])
        /\ Cardinality(DOMAIN config.legacy[last.client])
               = Cardinality(DOMAIN last.preConfig.legacy[last.client])

\* a call on a map in which the embedded id of one entry is the key of
\* another entry has returned
C26_Witness ==
    /\ last.op = "normalize_servers_for"
    /\ \E k \in DOMAIN last.preConfig.legacy[last.client] :
          LET pre == last.preConfig.legacy[last.client]
          IN  /\ pre[k].isObj
              /\ pre[k].id # k
              /\ pre[k].id \in DOMAIN pre

\* C28: a row exported by export_sql and imported by import_sql comes
\* back as one row with the same text, whatever characters the text holds.
C28_SqlRoundTrip ==
    (call.fn = "round_trip" /\ call.done) =>
        call.output.ok /\ call.output.rows = <<call.input>>

====
